---- MODULE Spec2Model ----
(***************************************************************************)
(* The 2D matrix-stiffness solver of frame-2d (src/frame/solver.ts) and    *)
(* the application state that drives it: the model under edit and the      *)
(* results of its analysis.                                                *)
(*                                                                         *)
(* Numbers.  The code computes with IEEE doubles.  Here a number is an     *)
(* exact value n/d * 10^e with n/d in lowest terms and no factor 10 in n   *)
(* or d.  A value may still have two such records (1/2 and 5 * 10^-1), so  *)
(* the properties compare numbers with Eq and IsZero, never as records.    *)
(* The decimal exponent lets the model hold the program's own constants    *)
(* (200e9, 0.0001, 1e-12) next to small inputs without leaving TLC's       *)
(* 32-bit integers.  Rounding is not modelled: every input set below uses  *)
(* small integers and Pythagorean geometry, for which the exact value is   *)
(* what the formulas of the code denote.                                   *)
(***************************************************************************)
EXTENDS Integers, Sequences, FiniteSets, TLC

----------------------------------------------------------------------------
(* Exact arithmetic *)

RECURSIVE GCD(_, _)
GCD(a, b) == IF b = 0 THEN a ELSE GCD(b, a % b)

AbsInt(a) == IF a < 0 THEN -a ELSE a

RECURSIVE Pow10(_)
Pow10(k) == IF k = 0 THEN 1 ELSE 10 * Pow10(k - 1)

\* number of decimal digits of a positive integer
RECURSIVE Digits(_)
Digits(a) == IF a < 10 THEN 1 ELSE 1 + Digits(a \div 10)

\* move factors of ten out of a positive integer: <<rest, count>>
RECURSIVE StripTens(_, _)
StripTens(a, k) == IF a % 10 = 0 THEN StripTens(a \div 10, k + 1) ELSE <<a, k>>

Zero == [n |-> 0, d |-> 1, e |-> 0]

\* the number sg * sn[1]/sd[1] * 10^(e + sn[2] - sd[2]) for stripped sn, sd
Stripped(sg, sn, sd, e) == [n |-> sg * sn[1], d |-> sd[1], e |-> e + sn[2] - sd[2]]

\* n/d * 10^e, n # 0, with g the greatest common divisor of |n| and |d|
NormBy(n, d, e, g) ==
    Stripped(IF (n < 0) = (d < 0) THEN 1 ELSE -1,
             StripTens(AbsInt(n) \div g, 0), StripTens(AbsInt(d) \div g, 0), e)

\* the normal form of n/d * 10^e, d # 0
Norm(n, d, e) == IF n = 0 THEN Zero ELSE NormBy(n, d, e, GCD(AbsInt(n), AbsInt(d)))

Whole(k) == Norm(k, 1, 0)
Frac(n, d) == Norm(n, d, 0)
Sci(n, e) == Norm(n, 1, e)

One == [n |-> 1, d |-> 1, e |-> 0]

Neg(a) == [a EXCEPT !.n = -a.n]
Abs(a) == [a EXCEPT !.n = AbsInt(a.n)]

\* a * b, a, b # 0, cancelling g1 = gcd(|a.n|, b.d) and g2 = gcd(|b.n|, a.d)
MulBy(a, b, g1, g2) ==
    Stripped(IF (a.n < 0) = (b.n < 0) THEN 1 ELSE -1,
             StripTens(AbsInt((a.n \div g1) * (b.n \div g2)), 0),
             StripTens((a.d \div g2) * (b.d \div g1), 0), a.e + b.e)

Mul(a, b) ==
    IF a.n = 0 \/ b.n = 0 THEN Zero
    ELSE MulBy(a, b, GCD(AbsInt(a.n), b.d), GCD(AbsInt(b.n), a.d))

\* JavaScript a / b for b # 0 (every division of the solver is guarded so)
Div(a, b) ==
    Mul(a, [n |-> IF b.n < 0 THEN -b.d ELSE b.d, d |-> AbsInt(b.n), e |-> -b.e])

\* a + b, a, b # 0, at the common exponent e and with g = gcd(a.d, b.d)
AddAt(a, b, e, g) ==
    Norm(a.n * Pow10(a.e - e) * (b.d \div g) + b.n * Pow10(b.e - e) * (a.d \div g),
         (a.d \div g) * b.d, e)

Add(a, b) ==
    IF a.n = 0 THEN b
    ELSE IF b.n = 0 THEN a
    ELSE AddAt(a, b, IF a.e < b.e THEN a.e ELSE b.e, GCD(a.d, b.d))

Sub(a, b) == Add(a, Neg(b))

\* a < b for a, b >= 0.  Values whose decimal magnitudes are far apart are
\* ordered by magnitude; the rest by cross-multiplication.
LessPos(a, b) ==
    IF b.n = 0 THEN FALSE
    ELSE IF a.n = 0 THEN TRUE
    ELSE LET la == Digits(a.n) - Digits(a.d) + a.e
             lb == Digits(b.n) - Digits(b.d) + b.e
         IN  IF la + 1 <= lb - 1 THEN TRUE
             ELSE IF la - 1 >= lb + 1 THEN FALSE
             ELSE LET e == IF a.e < b.e THEN a.e ELSE b.e
                  IN  a.n * Pow10(a.e - e) * b.d < b.n * Pow10(b.e - e) * a.d

\* Math.abs(a) > Math.abs(b)
AbsGreater(a, b) == LessPos(Abs(b), Abs(a))

Square(a) == Mul(a, a)
Cube(a) == Mul(a, Mul(a, a))

\* Math.sqrt on the values the geometry below produces (perfect squares)
ISqrt(k) == CHOOSE r \in 0..k : r * r = k
Sqrt(a) ==
    IF a.n = 0 THEN Zero
    ELSE LET m == IF a.e % 2 = 0 THEN a.n ELSE a.n * 10
             h == IF a.e % 2 = 0 THEN a.e \div 2 ELSE (a.e - 1) \div 2
         IN  Norm(ISqrt(m), ISqrt(a.d), h)

----------------------------------------------------------------------------
(* NP: the linear-algebra helpers.  A vector is a sequence of numbers, a   *)
(* matrix a sequence of rows; index k of the code is index k + 1 here.     *)

\* a sequence with its elements evaluated once
Fix(f) == f \o <<>>

\* NP.zeros(rows) and NP.zeros(rows, cols)
ZerosVec(rows) == Fix([i \in 1..rows |-> Zero])
Zeros(rows, cols) == Fix([i \in 1..rows |-> ZerosVec(cols)])

RECURSIVE DotFrom(_, _, _)
DotFrom(row, v, j) ==
    IF j > Len(row) THEN Zero
    ELSE IF row[j].n = 0 \/ v[j].n = 0 THEN DotFrom(row, v, j + 1)
    ELSE Add(Mul(row[j], v[j]), DotFrom(row, v, j + 1))

\* NP.matmul(A, b) for a vector b: throws "Shape mismatch" unless colsA = b.length
MatVec(A, b) == Fix([i \in 1..Len(A) |-> DotFrom(A[i], b, 1)])

Column(B, j) == Fix([k \in 1..Len(B) |-> B[k][j]])

\* NP.matmul(A, B) for a matrix B
MatMul(A, B) ==
    LET Bt == Fix([j \in 1..Len(B[1]) |-> Column(B, j)])
    IN  Fix([i \in 1..Len(A) |-> Fix([j \in 1..Len(Bt) |-> DotFrom(A[i], Bt[j], 1)])])

\* NP.transpose
Transpose(A) == Fix([j \in 1..Len(A[1]) |-> Fix([i \in 1..Len(A) |-> A[i][j]])])

\* NP.ix_(matrix, rows, cols); rows and cols hold the code's 0-based indices
Ix(matrix, rows, cols) ==
    Fix([i \in 1..Len(rows) |->
           Fix([j \in 1..Len(cols) |-> matrix[rows[i] + 1][cols[j] + 1]])])

\* the pivot test of NP.solve: Math.abs(p) < 1e-12
PivotTol == Sci(1, -12)
IsTinyPivot(p) == LessPos(Abs(p), PivotTol)

SwapRows(seq, i, j) == [seq EXCEPT ![i] = seq[j], ![j] = seq[i]]

\* the inner search of NP.solve: the first row of largest |M[k][i]|, k >= i
RECURSIVE PivotRow(_, _, _, _)
PivotRow(M, i, k, maxRow) ==
    IF k > Len(M) THEN maxRow
    ELSE PivotRow(M, i, k + 1, IF AbsGreater(M[k][i], M[maxRow][i]) THEN k ELSE maxRow)

\* the elimination below row i of NP.solve, on the swapped M1 and x1: skipped
\* when the pivot is tiny
ElimBelow(M1, x1, i) ==
    IF IsTinyPivot(M1[i][i]) THEN [M |-> M1, x |-> x1]
    ELSE LET factor(k) == Div(M1[k][i], M1[i][i])
         IN  [M |-> Fix([k \in 1..Len(M1) |->
                       IF k <= i THEN M1[k]
                       ELSE Fix([j \in 1..Len(M1) |->
                               IF j < i THEN M1[k][j]
                               ELSE Sub(M1[k][j], Mul(factor(k), M1[i][j]))])]),
              x |-> Fix([k \in 1..Len(M1) |->
                       IF k <= i THEN x1[k]
                       ELSE Sub(x1[k], Mul(factor(k), x1[i]))])]

\* mutant: the rows of M are swapped, the entries of x are not
SwapAndEliminate_KeepRhs(S, i, maxRow) ==
    ElimBelow(SwapRows(S.M, i, maxRow), S.x, i)

\* the row swap of NP.solve for column i and pivot row maxRow, then the
\* elimination
SwapAndEliminate(S, i, maxRow) ==
    ElimBelow(SwapRows(S.M, i, maxRow), SwapRows(S.x, i, maxRow), i)

\* one pass of the outer loop of NP.solve for column i, on S = [M, x]
ElimStep(S, i) == SwapAndEliminate(S, i, PivotRow(S.M, i, i + 1, i))

RECURSIVE Eliminate(_, _)
Eliminate(S, i) == IF i > Len(S.M) THEN S ELSE Eliminate(ElimStep(S, i), i + 1)

RECURSIVE BackSubstitute(_, _, _)
BackSubstitute(S, i, res) ==
    IF i < 1 THEN res
    ELSE LET v == IF IsTinyPivot(S.M[i][i]) THEN Zero
                  ELSE Div(Sub(S.x[i], DotFrom(S.M[i], res, i + 1)), S.M[i][i])
         IN  BackSubstitute(S, i - 1, [res EXCEPT ![i] = v])

\* NP.solve(A, b): Gaussian elimination with partial pivoting.  It never
\* throws; an unknown whose pivot is tiny is returned as 0.
solve(A, b) ==
    LET S == Eliminate([M |-> A, x |-> b], 1)
    IN  BackSubstitute(S, Len(A), ZerosVec(Len(A)))

\* the rows at which NP.solve meets a pivot with |pivot| < 1e-12
TinyPivots(A) ==
    LET S == Eliminate([M |-> A, x |-> ZerosVec(Len(A))], 1)
    IN  {i \in 1..Len(A) : IsTinyPivot(S.M[i][i])}

----------------------------------------------------------------------------
(* Element formulations *)

\* an absent optional number (JavaScript undefined); no number has d = 0
Undefined == [n |-> 0, d |-> 0, e |-> 0]

\* v || dflt for an optional number: 0 and undefined are falsy
OrElse(v, dflt) == IF v = Undefined \/ v = Zero THEN dflt ELSE v

\* transformation_matrix(s, c) with dof = 6
transformation_matrix(s, c) ==
    << <<c,      s, Zero, Zero,   Zero, Zero>>,
       <<Neg(s), c, Zero, Zero,   Zero, Zero>>,
       <<Zero, Zero, One, Zero,   Zero, Zero>>,
       <<Zero, Zero, Zero, c,      s,   Zero>>,
       <<Zero, Zero, Zero, Neg(s), c,   Zero>>,
       <<Zero, Zero, Zero, Zero,   Zero, One>> >>

\* transformation_matrix(s, c, 4): rows and columns 2 and 5 removed
transformation_matrix4(s, c) ==
    Ix(transformation_matrix(s, c), <<0, 1, 3, 4>>, <<0, 1, 3, 4>>)

\* mutant: the shear-moment coupling term of row 1 has the wrong sign
beam_local_stiffness_matrix_Skew(A, E, I, l) ==
    LET c1   == Div(Mul(A, E), l)
        c2   == Div(Mul(E, I), Cube(l))
        k(f) == Mul(Whole(f), c2)
        kl(f) == Mul(Mul(Whole(f), c2), l)
        kll(f) == Mul(Mul(Whole(f), c2), Square(l))
    IN  << <<c1,      Zero,   Zero,   Neg(c1), Zero,    Zero>>,
           <<Zero,    k(12),  kl(-6), Zero,    k(-12),  kl(6)>>,
           <<Zero,    kl(6),  kll(4), Zero,    kl(-6),  kll(2)>>,
           <<Neg(c1), Zero,   Zero,   c1,      Zero,    Zero>>,
           <<Zero,    k(-12), kl(-6), Zero,    k(12),   kl(-6)>>,
           <<Zero,    kl(6),  kll(2), Zero,    kl(-6),  kll(4)>> >>

\* the matrix beam_local_stiffness_matrix returns, from its terms: c1, and
\* 12 c2, 6 c2 l, 4 c2 l^2 and 2 c2 l^2
BeamLocalRows(c1, k12, k6l, k4ll, k2ll) ==
    << <<c1,      Zero,     Zero,     Neg(c1), Zero,     Zero>>,
       <<Zero,    k12,      k6l,      Zero,    Neg(k12), k6l>>,
       <<Zero,    k6l,      k4ll,     Zero,    Neg(k6l), k2ll>>,
       <<Neg(c1), Zero,     Zero,     c1,      Zero,     Zero>>,
       <<Zero,    Neg(k12), Neg(k6l), Zero,    k12,      Neg(k6l)>>,
       <<Zero,    k6l,      k2ll,     Zero,    Neg(k6l), k4ll>> >>

\* the terms of beam_local_stiffness_matrix from c1, c2 and l
BeamLocalTerms(c1, c2, l) ==
    BeamLocalRows(c1, Mul(Whole(12), c2), Mul(Mul(Whole(6), c2), l),
                  Mul(Mul(Whole(4), c2), Square(l)),
                  Mul(Mul(Whole(2), c2), Square(l)))

\* BeamElement.beam_local_stiffness_matrix
beam_local_stiffness_matrix(A, E, I, l) ==
    BeamLocalTerms(Div(Mul(A, E), l), Div(Mul(E, I), Cube(l)), l)

\* mutant: the spring is twice as stiff
spring_local_stiffness_matrix_Double(k) ==
    LET k2 == Add(k, k)
    IN  << <<k2,      Zero, Neg(k2), Zero>>,
           <<Zero,    Zero, Zero,    Zero>>,
           <<Neg(k2), Zero, k2,      Zero>>,
           <<Zero,    Zero, Zero,    Zero>> >>

\* SpringElement.spring_local_stiffness_matrix
spring_local_stiffness_matrix(k) ==
    << <<k,      Zero, Neg(k), Zero>>,
       <<Zero,   Zero, Zero,   Zero>>,
       <<Neg(k), Zero, k,      Zero>>,
       <<Zero,   Zero, Zero,   Zero>> >>

\* { k_local, k_global } with k_global = T^t . (k_local . T), as both element
\* classes compute it
GlobalStiffness(k_local, t) ==
    [k_local |-> k_local, k_global |-> MatMul(Transpose(t), MatMul(k_local, t))]

\* BeamElement.beam_stiffness_matrix
beam_stiffness_matrix(A, E, I, l, s, c) ==
    GlobalStiffness(beam_local_stiffness_matrix(A, E, I, l), transformation_matrix(s, c))

\* SpringElement.spring_stiffness_matrix
spring_stiffness_matrix(k, s, c) ==
    GlobalStiffness(spring_local_stiffness_matrix(k), transformation_matrix4(s, c))

\* the 4x4 -> 6x6 expansion shared by calculate_element_stiffness_matrix and
\* getElementForces: slots 0,1,2,3 go to 0,1,3,4; rows and columns 2, 5 stay 0
Expand4to6(k4) ==
    LET back == <<1, 2, 0, 3, 4, 0>>
    IN  Fix([r \in 1..6 |-> Fix([c \in 1..6 |->
            IF back[r] = 0 \/ back[c] = 0 THEN Zero ELSE k4[back[r]][back[c]]])])

----------------------------------------------------------------------------
(* class Structure.  An object is a record; a method is an operator from   *)
(* the object (and arguments) to the object after the call.  threw = TRUE  *)
(* records that the call raised a TypeError, which analyzeStructure        *)
(* catches.  nodes and elements are keyed 1..nodeCount and 1..elemCount.   *)

\* a node id that idMap does not hold: get_id returns undefined (falsy)
NoId == 0

NewStructure ==
    [nodes |-> <<>>, elements |-> <<>>, idMap |-> <<>>,
     nodeCount |-> 0, elemCount |-> 0,
     K |-> <<>>, K_reduced |-> <<>>,
     node_load |-> <<>>, eq_node_load |-> <<>>, eff_node_load |-> <<>>,
     node_load_reduced |-> <<>>, free_dof |-> <<>>, fix_dof |-> <<>>,
     node_displacements |-> <<>>, free_dof_displacements |-> <<>>,
     reactions |-> <<>>,
     threw |-> FALSE, solve_calls |-> 0]

\* Structure.add_node: no check for an id already in idMap
add_node(S, idStr, x, y) ==
    LET count == S.nodeCount + 1
    IN  [S EXCEPT !.nodeCount = count,
                  !.idMap = (idStr :> count) @@ S.idMap,
                  !.nodes = Append(S.nodes,
                      [id |-> count, idStr |-> idStr, x |-> x, y |-> y,
                       support |-> <<>>, load |-> <<>>])]

\* Structure.get_id
get_id(S, idStr) == IF idStr \in DOMAIN S.idMap THEN S.idMap[idStr] ELSE NoId

\* get_length_sine_cosine reads this.nodes[node]["x"]: a TypeError when the
\* node index is undefined
get_length_throws(node_i, node_j) == node_i = NoId \/ node_j = NoId

\* the substitute length of a zero-length member
MinLength == Sci(1, -4)

\* mutant: the substitute orientation of a zero-length member is sine 1
get_length_sine_cosine_Upright(S, node_i, node_j) ==
    LET del_x  == Sub(S.nodes[node_j].x, S.nodes[node_i].x)
        del_y  == Sub(S.nodes[node_j].y, S.nodes[node_i].y)
        length == Sqrt(Add(Square(del_x), Square(del_y)))
    IN  IF length = Zero
        THEN [length |-> MinLength, sine |-> One, cosine |-> Zero]
        ELSE [length |-> length, sine |-> Div(del_y, length),
              cosine |-> Div(del_x, length)]

\* Structure.get_length_sine_cosine
get_length_sine_cosine(S, node_i, node_j) ==
    LET del_x  == Sub(S.nodes[node_j].x, S.nodes[node_i].x)
        del_y  == Sub(S.nodes[node_j].y, S.nodes[node_i].y)
        length == Sqrt(Add(Square(del_x), Square(del_y)))
    IN  IF length = Zero
        THEN [length |-> MinLength, sine |-> Zero, cosine |-> One]
        ELSE [length |-> length, sine |-> Div(del_y, length),
              cosine |-> Div(del_x, length)]

\* the element object add_frame and add_spring store
NewElement(S, idStr, node_i, node_j, type, E, A, I, k) ==
    LET g == get_length_sine_cosine(S, node_i, node_j)
    IN  [id |-> S.elemCount + 1, idStr |-> idStr, node_i |-> node_i,
         node_j |-> node_j, length |-> g.length, sine |-> g.sine,
         cosine |-> g.cosine, E |-> E, A |-> A, I |-> I, k |-> k,
         type |-> type, udl |-> Undefined, triangular_sym |-> Undefined,
         eq_load |-> <<>>, k_local |-> <<>>]

\* mutant: a member that names an unknown node is dropped instead of throwing
AddElementSkipsUnknown(S, idStr, node_i_str, node_j_str, type, E, A, I, k) ==
    LET node_i == get_id(S, node_i_str)
        node_j == get_id(S, node_j_str)
    IN  IF get_length_throws(node_i, node_j) THEN S
        ELSE [S EXCEPT !.elemCount = S.elemCount + 1,
                       !.elements = Append(S.elements,
                           NewElement(S, idStr, node_i, node_j, type, E, A, I, k))]

\* the body add_frame and add_spring share
AddElement(S, idStr, node_i_str, node_j_str, type, E, A, I, k) ==
    LET node_i == get_id(S, node_i_str)
        node_j == get_id(S, node_j_str)
    IN  IF get_length_throws(node_i, node_j) THEN [S EXCEPT !.threw = TRUE]
        ELSE [S EXCEPT !.elemCount = S.elemCount + 1,
                       !.elements = Append(S.elements,
                           NewElement(S, idStr, node_i, node_j, type, E, A, I, k))]

\* Structure.add_frame
add_frame(S, idStr, node_i_str, node_j_str, E, A, I) ==
    AddElement(S, idStr, node_i_str, node_j_str, "frame", E, A, I, Undefined)

\* Structure.add_spring
add_spring(S, idStr, node_i_str, node_j_str, k) ==
    AddElement(S, idStr, node_i_str, node_j_str, "spring",
               Undefined, Undefined, Undefined, k)

\* mutant: a new support adds its restraints to those the node already has
add_support_Union(S, node_id_str, type) ==
    LET node_id == get_id(S, node_id_str)
        held    == IF S.nodes[node_id].support = <<>> THEN <<0, 0, 0>>
                   ELSE S.nodes[node_id].support
    IN  IF node_id # NoId
        THEN [S EXCEPT !.nodes[node_id].support =
                 [k \in 1..3 |-> IF held[k] = 1 \/ type[k] = 1 THEN 1 ELSE 0]]
        ELSE S

\* Structure.add_support: an unknown node id is skipped; the new triple
\* replaces the node's support
add_support(S, node_id_str, type) ==
    LET node_id == get_id(S, node_id_str)
    IN  IF node_id # NoId THEN [S EXCEPT !.nodes[node_id].support = type] ELSE S

\* mutant: a new nodal load replaces the load the node holds
add_node_load_Replace(S, node_id_str, load) ==
    LET node_id == get_id(S, node_id_str)
    IN  IF node_id # NoId THEN [S EXCEPT !.nodes[node_id].load = load] ELSE S

\* Structure.add_node_load: an unknown node id is skipped; loads accumulate
add_node_load(S, node_id_str, load) ==
    LET node_id  == get_id(S, node_id_str)
        held     == S.nodes[node_id].load
        existing == IF held = <<>> THEN <<Zero, Zero, Zero>> ELSE held
    IN  IF node_id # NoId
        THEN [S EXCEPT !.nodes[node_id].load =
                 <<Add(existing[1], load[1]), Add(existing[2], load[2]),
                   Add(existing[3], load[3])>>]
        ELSE S

\* the equivalent nodal load of a member point load P at a from node i
PointEqLoad(P, a, L) ==
    LET b           == Sub(L, a)
        M_start_fem == Div(Mul(Mul(P, a), Square(b)), Square(L))
        M_end_fem   == Div(Mul(Mul(Neg(P), Square(a)), b), Square(L))
        V_start_fem == Div(Mul(Mul(P, Square(b)), Add(Mul(Whole(3), a), b)), Cube(L))
        V_end_fem   == Div(Mul(Mul(P, Square(a)), Add(a, Mul(Whole(3), b))), Cube(L))
    IN  <<Zero, V_start_fem, M_start_fem, Zero, V_end_fem, M_end_fem>>

\* mutant: the end moments of a simply supported span, wL^2/8
UdlEqLoad_Eighth(w, L) ==
    LET shear  == Div(Mul(w, L), Whole(2))
        moment == Div(Mul(w, Square(L)), Whole(8))
    IN  <<Zero, shear, moment, Zero, shear, Neg(moment)>>

\* the equivalent nodal load of a uniformly distributed load w
UdlEqLoad(w, L) ==
    LET shear  == Div(Mul(w, L), Whole(2))
        moment == Div(Mul(w, Square(L)), Whole(12))
    IN  <<Zero, shear, moment, Zero, shear, Neg(moment)>>

\* the equivalent nodal load of a symmetric triangular load of peak w
TriangularEqLoad(w, L) ==
    LET shear  == Div(Mul(w, L), Whole(4))
        moment == Div(Mul(Mul(Whole(5), w), Square(L)), Whole(96))
    IN  <<Zero, shear, moment, Zero, shear, Neg(moment)>>

\* the first element whose idStr is the given one, 0 when there is none
RECURSIVE FindElement(_, _, _)
FindElement(S, idStr, i) ==
    IF i > Len(S.elements) THEN 0
    ELSE IF S.elements[i].idStr = idStr THEN i
    ELSE FindElement(S, idStr, i + 1)

\* mutant: a new member load is added to the equivalent load the element holds
add_distributed_load_Accumulate(S, idStr, w, type, location) ==
    LET elId == FindElement(S, idStr, 1)
        L    == S.elements[elId].length
        held == IF S.elements[elId].eq_load = <<>> THEN ZerosVec(6)
                ELSE S.elements[elId].eq_load
        new  == IF type = "udl" THEN UdlEqLoad(w, L)
                ELSE IF type = "triangular_sym" THEN TriangularEqLoad(w, L)
                ELSE PointEqLoad(w, OrElse(location, Div(L, Whole(2))), L)
    IN  IF elId = 0 THEN S
        ELSE [S EXCEPT !.elements[elId].eq_load = [c \in 1..6 |-> Add(held[c], new[c])]]

\* Structure.add_distributed_load: an unknown member id is skipped; the new
\* equivalent load replaces the element's eq_load
add_distributed_load(S, idStr, w, type, location) ==
    LET elId == FindElement(S, idStr, 1)
        L    == S.elements[elId].length
    IN  IF elId = 0 THEN S
        ELSE IF type = "udl"
        THEN [S EXCEPT !.elements[elId].udl = w,
                       !.elements[elId].eq_load = UdlEqLoad(w, L)]
        ELSE IF type = "triangular_sym"
        THEN [S EXCEPT !.elements[elId].triangular_sym = w,
                       !.elements[elId].eq_load = TriangularEqLoad(w, L)]
        ELSE IF type = "point"
        THEN [S EXCEPT !.elements[elId].eq_load =
                 PointEqLoad(w, OrElse(location, Div(L, Whole(2))), L)]
        ELSE S

\* the pair calculate_element_stiffness_matrix passes on for an element's
\* { k_local, k_global }: a spring's 4x4 k_global is expanded to 6x6
ElementBlock(m, expand) ==
    [k_local |-> m.k_local, k_el |-> IF expand THEN Expand4to6(m.k_global) ELSE m.k_global]

\* Structure.calculate_element_stiffness_matrix: k_local as stored on the
\* element, k_el the 6x6 block to assemble
calculate_element_stiffness_matrix(data) ==
    IF data.type = "frame"
    THEN ElementBlock(beam_stiffness_matrix(data.A, data.E, data.I, data.length,
                                            data.sine, data.cosine), FALSE)
    ELSE ElementBlock(spring_stiffness_matrix(data.k, data.sine, data.cosine), TRUE)

\* Structure.get_dofs (0-based DOF indices)
get_dofs(node_id) ==
    LET start == (node_id - 1) * 3 IN <<start, start + 1, start + 2>>

ElementDofs(el) == get_dofs(el.node_i) \o get_dofs(el.node_j)

InSeq(v, seq) == \E i \in 1..Len(seq) : seq[i] = v

\* the slots (1-based) at which an index sequence holds the 0-based index v
SlotsOf(seq, v) == SelectSeq([i \in 1..Len(seq) |-> i], LAMBDA i : seq[i] = v)

\* the sum of source[rs[a]][cs[b]] over the pairs (a, b) numbered k and up
RECURSIVE SumSlots(_, _, _, _)
SumSlots(source, rs, cs, k) ==
    IF k >= Len(rs) * Len(cs) THEN Zero
    ELSE Add(source[rs[(k \div Len(cs)) + 1]][cs[(k % Len(cs)) + 1]],
             SumSlots(source, rs, cs, k + 1))

\* mutant: target[rows[i]][cols[j]] = source[i][j], what was there is lost
addToSubmatrix_Overwrite(target, source, rows, cols) ==
    Fix([p \in 1..Len(target) |->
        LET rs == SlotsOf(rows, p - 1)
        IN  IF rs = <<>> THEN target[p]
            ELSE Fix([q \in 1..Len(target[p]) |->
                    LET cs == SlotsOf(cols, q - 1)
                    IN  IF cs = <<>> THEN target[p][q]
                        ELSE source[rs[Len(rs)]][cs[Len(cs)]]])])

\* NP.addToSubmatrix: target[rows[i]][cols[j]] += source[i][j] for all i, j
addToSubmatrix(target, source, rows, cols) ==
    Fix([p \in 1..Len(target) |->
        LET rs == SlotsOf(rows, p - 1)
        IN  IF rs = <<>> THEN target[p]
            ELSE Fix([q \in 1..Len(target[p]) |->
                    LET cs == SlotsOf(cols, q - 1)
                    IN  IF cs = <<>> THEN target[p][q]
                        ELSE Add(target[p][q], SumSlots(source, rs, cs, 0))])])

\* the body of the loop of assemble_structure_stiffness_matrix for element i,
\* m being its calculate_element_stiffness_matrix
AssembleElement(S, i, m) ==
    [S EXCEPT !.elements[i].k_local = m.k_local,
              !.K = addToSubmatrix(S.K, m.k_el, ElementDofs(S.elements[i]),
                                   ElementDofs(S.elements[i]))]

\* the loop of assemble_structure_stiffness_matrix from element i on
RECURSIVE AssembleFrom(_, _)
AssembleFrom(S, i) ==
    IF i > Len(S.elements) THEN S
    ELSE AssembleFrom(
             AssembleElement(S, i, calculate_element_stiffness_matrix(S.elements[i])),
             i + 1)

\* Structure.assemble_structure_stiffness_matrix
assemble_structure_stiffness_matrix(S) ==
    AssembleFrom([S EXCEPT !.K = Zeros(S.nodeCount * 3, S.nodeCount * 3)], 1)

NodeLoad(node) == IF node.load = <<>> THEN <<Zero, Zero, Zero>> ELSE node.load

\* the loop over elements of assemble_load_vector from element i on
RECURSIVE EqLoadFrom(_, _, _)
EqLoadFrom(S, vec, i) ==
    IF i > Len(S.elements) THEN vec
    ELSE LET el   == S.elements[i]
             dofs == ElementDofs(el)
             hit(d) == SumSlots(<<el.eq_load>>, <<1>>, SlotsOf(dofs, d), 0)
         IN  EqLoadFrom(S,
                 IF el.eq_load = <<>> THEN vec
                 ELSE Fix([d \in 1..Len(vec) |-> Add(vec[d], hit(d - 1))]),
                 i + 1)

\* the last statement of assemble_load_vector: eff = node_load + eq_node_load
EffectiveLoad(S) ==
    [S EXCEPT !.eff_node_load =
        Fix([d \in 1..(S.nodeCount * 3) |-> Add(S.node_load[d], S.eq_node_load[d])])]

\* Structure.assemble_load_vector
assemble_load_vector(S) ==
    EffectiveLoad(
        [S EXCEPT !.node_load =
                      Fix([d \in 1..(S.nodeCount * 3) |->
                          NodeLoad(S.nodes[((d - 1) \div 3) + 1])[((d - 1) % 3) + 1]]),
                  !.eq_node_load = EqLoadFrom(S, ZerosVec(S.nodeCount * 3), 1)])

\* the flag get_free_dofs gives DOF idx: 1 = free, 0 = fixed
FreeFlag(S, idx) ==
    LET node    == S.nodes[(idx \div 3) + 1]
        support == IF node.support = <<>> THEN <<0, 0, 0>> ELSE node.support
    IN  IF support[(idx % 3) + 1] = 1 THEN 0 ELSE 1

AllDofs(S) == [i \in 1..(S.nodeCount * 3) |-> i - 1]

\* Structure.get_free_dofs
get_free_dofs(S) ==
    [S EXCEPT !.free_dof = SelectSeq(AllDofs(S), LAMBDA idx : FreeFlag(S, idx) = 1),
              !.fix_dof  = SelectSeq(AllDofs(S), LAMBDA idx : FreeFlag(S, idx) # 1)]

\* mutant: the solution is packed at the front of the displacement vector
\* instead of scattered to the free DOFs
find_displacements_Packed(S) ==
    LET S1 == get_free_dofs(S)
        K_reduced == Ix(S1.K, S1.free_dof, S1.free_dof)
        node_load_reduced ==
            Fix([i \in 1..Len(S1.free_dof) |-> S1.eff_node_load[S1.free_dof[i] + 1]])
        empty == Len(S1.free_dof) = 0
        free_dof_displacements ==
            IF empty THEN <<>> ELSE solve(K_reduced, node_load_reduced)
    IN  [S1 EXCEPT !.K_reduced = K_reduced,
                   !.node_load_reduced = node_load_reduced,
                   !.free_dof_displacements = free_dof_displacements,
                   !.solve_calls = IF empty THEN S1.solve_calls ELSE S1.solve_calls + 1,
                   !.node_displacements =
                       Fix([d \in 1..(S1.nodeCount * 3) |->
                           IF d <= Len(S1.free_dof)
                           THEN free_dof_displacements[d]
                           ELSE Zero])]

\* find_displacements after get_free_dofs: K_reduced and node_load_reduced
ReduceSystem(S) ==
    [S EXCEPT !.K_reduced = Ix(S.K, S.free_dof, S.free_dof),
              !.node_load_reduced =
                  Fix([i \in 1..Len(S.free_dof) |-> S.eff_node_load[S.free_dof[i] + 1]])]

\* mutant: a tiny pivot makes NP.solve throw, and find_displacements with it
SolveReduced_Throws(S) ==
    IF Len(S.free_dof) = 0 THEN [S EXCEPT !.free_dof_displacements = <<>>]
    ELSE [S EXCEPT !.free_dof_displacements = solve(S.K_reduced, S.node_load_reduced),
                   !.solve_calls = S.solve_calls + 1,
                   !.threw = TinyPivots(S.K_reduced) # {}]

\* find_displacements: free_dof_displacements, [] when there is no free DOF.
\* NP.solve never throws, so the catch that would raise "Structure is
\* unstable." is never entered.
SolveReduced(S) ==
    IF Len(S.free_dof) = 0 THEN [S EXCEPT !.free_dof_displacements = <<>>]
    ELSE [S EXCEPT !.free_dof_displacements = solve(S.K_reduced, S.node_load_reduced),
                   !.solve_calls = S.solve_calls + 1]

\* the slot of free_dof that holds DOF d
FreeSlot(S, d) == CHOOSE i \in 1..Len(S.free_dof) : S.free_dof[i] = d

\* find_displacements: node_displacements, zero but at the free DOFs
ScatterDisplacements(S) ==
    [S EXCEPT !.node_displacements =
        Fix([d \in 1..(S.nodeCount * 3) |->
            IF InSeq(d - 1, S.free_dof)
            THEN S.free_dof_displacements[FreeSlot(S, d - 1)]
            ELSE Zero])]

\* Structure.find_displacements
find_displacements(S) ==
    ScatterDisplacements(SolveReduced(ReduceSystem(get_free_dofs(S))))

\* mutant: the equivalent nodal loads are not taken off the reactions
find_reactions_NoEqLoad(S) ==
    IF Len(S.fix_dof) = 0 THEN [S EXCEPT !.reactions = <<>>]
    ELSE LET K_fix == Ix(S.K, S.fix_dof, AllDofs(S))
         IN  [S EXCEPT !.reactions = MatVec(K_fix, S.node_displacements)]

\* mutant: the direct nodal loads are taken off the reactions too
ReactionsFrom_EffLoad(S, KU) ==
    [S EXCEPT !.reactions =
        Fix([i \in 1..Len(KU) |-> Sub(KU[i], S.eff_node_load[S.fix_dof[i] + 1])])]

\* the last statement of find_reactions: reactions = KU - eq_fixed
ReactionsFrom(S, KU) ==
    [S EXCEPT !.reactions =
        Fix([i \in 1..Len(KU) |-> Sub(KU[i], S.eq_node_load[S.fix_dof[i] + 1])])]

\* Structure.find_reactions
find_reactions(S) ==
    IF Len(S.fix_dof) = 0 THEN [S EXCEPT !.reactions = <<>>]
    ELSE ReactionsFrom(S, MatVec(Ix(S.K, S.fix_dof, AllDofs(S)), S.node_displacements))

\* the last statement of getElementForces: kd - eq_load, eq_load || zeros(6)
LocalForces(kd, eq_load) ==
    Fix([i \in 1..6 |-> Sub(kd[i], IF eq_load = <<>> THEN Zero ELSE eq_load[i])])

\* the element's displacements in global coordinates
GlobalDisplacements(S, data) ==
    Fix([i \in 1..6 |-> S.node_displacements[ElementDofs(data)[i] + 1]])

\* getElementForces for the element object data
ElementForces(S, data) ==
    LocalForces(
        MatVec(IF data.type = "spring" THEN Expand4to6(data.k_local) ELSE data.k_local,
               MatVec(transformation_matrix(data.sine, data.cosine),
                      GlobalDisplacements(S, data))),
        data.eq_load)

\* getElementForces(structure, elId)
getElementForces(S, elId) == ElementForces(S, S.elements[elId])

----------------------------------------------------------------------------
(* analyzeStructure.  A model is [nodes, members, supports, loads], each a  *)
(* sequence; an absent optional number is Undefined, an absent id is "".   *)

DefaultEModulus == Sci(2, 11)
DefaultArea == Sci(1, -2)
DefaultMomentInertia == Sci(1, -4)
DefaultSpringConstant == Whole(100)

\* model.nodes.forEach(n => structure.add_node(n.id, n.x, n.y))
RECURSIVE AddNodes(_, _, _)
AddNodes(S, nodes, i) ==
    IF i > Len(nodes) THEN S
    ELSE AddNodes(add_node(S, nodes[i].id, nodes[i].x, nodes[i].y), nodes, i + 1)

\* mutant: a truss keeps the moment of inertia it was given
AddMemberKeepsInertia(S, m) ==
    IF m.type = "spring"
    THEN add_spring(S, m.id, m.startNodeId, m.endNodeId,
                    OrElse(m.springConstant, DefaultSpringConstant))
    ELSE add_frame(S, m.id, m.startNodeId, m.endNodeId,
                   OrElse(m.eModulus, DefaultEModulus),
                   OrElse(m.area, DefaultArea),
                   OrElse(m.momentInertia, DefaultMomentInertia))

\* the body of model.members.forEach
AddMember(S, m) ==
    IF m.type = "spring"
    THEN add_spring(S, m.id, m.startNodeId, m.endNodeId,
                    OrElse(m.springConstant, DefaultSpringConstant))
    ELSE add_frame(S, m.id, m.startNodeId, m.endNodeId,
                   OrElse(m.eModulus, DefaultEModulus),
                   OrElse(m.area, DefaultArea),
                   IF m.type = "truss" THEN Zero
                   ELSE OrElse(m.momentInertia, DefaultMomentInertia))

\* model.members.forEach, left by the first call that throws
RECURSIVE AddMembers(_, _, _)
AddMembers(S, members, i) ==
    IF i > Len(members) \/ S.threw THEN S
    ELSE AddMembers(AddMember(S, members[i]), members, i + 1)

\* mutant: a roller restrains x instead of y
SupportTripleRollerX(type) ==
    IF type = "fixed" THEN <<1, 1, 1>>
    ELSE IF type = "pin" THEN <<1, 1, 0>>
    ELSE IF type = "roller" THEN <<1, 0, 0>>
    ELSE <<0, 0, 0>>

\* the [rx, ry, rm] triple analyzeStructure passes for a support type
SupportTriple(type) ==
    IF type = "fixed" THEN <<1, 1, 1>>
    ELSE IF type = "pin" THEN <<1, 1, 0>>
    ELSE IF type = "roller" THEN <<0, 1, 0>>
    ELSE <<0, 0, 0>>

\* model.supports.forEach
RECURSIVE AddSupports(_, _, _)
AddSupports(S, supports, i) ==
    IF i > Len(supports) THEN S
    ELSE AddSupports(add_support(S, supports[i].nodeId, SupportTriple(supports[i].type)),
                     supports, i + 1)

\* mutant: a member load is applied with magnitudeX added to magnitudeY
AddLoad_BothMagnitudes(S, l) ==
    IF l.type = "nodal_point" /\ l.nodeId # ""
    THEN add_node_load(S, l.nodeId,
                       <<l.magnitudeX, l.magnitudeY, OrElse(l.moment, Zero)>>)
    ELSE IF l.memberId # ""
    THEN IF l.type = "member_distributed"
         THEN add_distributed_load(S, l.memberId, Add(l.magnitudeY, l.magnitudeX),
                                   "udl", Undefined)
         ELSE IF l.type = "member_point"
         THEN add_distributed_load(S, l.memberId, Add(l.magnitudeY, l.magnitudeX),
                                   "point", l.location)
         ELSE S
    ELSE S

\* the body of model.loads.forEach
AddLoad(S, l) ==
    IF l.type = "nodal_point" /\ l.nodeId # ""
    THEN add_node_load(S, l.nodeId,
                       <<l.magnitudeX, l.magnitudeY, OrElse(l.moment, Zero)>>)
    ELSE IF l.memberId # ""
    THEN IF l.type = "member_distributed"
         THEN add_distributed_load(S, l.memberId, l.magnitudeY, "udl", Undefined)
         ELSE IF l.type = "member_point"
         THEN add_distributed_load(S, l.memberId, l.magnitudeY, "point", l.location)
         ELSE S
    ELSE S

\* model.loads.forEach
RECURSIVE AddLoads(_, _, _)
AddLoads(S, loads, i) ==
    IF i > Len(loads) THEN S
    ELSE AddLoads(AddLoad(S, loads[i]), loads, i + 1)

\* the last key (1-based) of a keyed collection whose idStr is the given one
LastWith(coll, idStr) ==
    CHOOSE i \in 1..Len(coll) :
        /\ coll[i].idStr = idStr
        /\ \A j \in (i + 1)..Len(coll) : coll[j].idStr # idStr

IdStrs(coll) == {coll[i].idStr : i \in 1..Len(coll)}

\* the displacements map: one entry per node id, written in index order
DisplacementMap(S) ==
    [idStr \in IdStrs(S.nodes) |->
        LET dofs == get_dofs(LastWith(S.nodes, idStr))
        IN  [x |-> S.node_displacements[dofs[1] + 1],
             y |-> S.node_displacements[dofs[2] + 1],
             rotation |-> S.node_displacements[dofs[3] + 1]]]

\* the value the fix_dof loop leaves in component localDof of reactionMap[idStr]
ReactionComponent(S, idStr, localDof) ==
    LET hits == {i \in 1..Len(S.fix_dof) :
                    /\ S.nodes[(S.fix_dof[i] \div 3) + 1].idStr = idStr
                    /\ S.fix_dof[i] % 3 = localDof}
    IN  IF hits = {} THEN Zero
        ELSE S.reactions[CHOOSE i \in hits : \A j \in hits : j <= i]

\* mutant: the reactions map has an entry for every node id
ReactionMap_AllNodes(S) ==
    [idStr \in IdStrs(S.nodes) |->
        [fx |-> ReactionComponent(S, idStr, 0),
         fy |-> ReactionComponent(S, idStr, 1),
         moment |-> ReactionComponent(S, idStr, 2)]]

\* the reactions map: an entry for each node id that owns a fixed DOF
ReactionMap(S) ==
    [idStr \in {S.nodes[(S.fix_dof[i] \div 3) + 1].idStr : i \in 1..Len(S.fix_dof)} |->
        [fx |-> ReactionComponent(S, idStr, 0),
         fy |-> ReactionComponent(S, idStr, 1),
         moment |-> ReactionComponent(S, idStr, 2)]]

\* the memberForces entry analyzeStructure writes for an element's forces
ForceEntry(forces) ==
    [start |-> [fx |-> forces[1], fy |-> forces[2], moment |-> forces[3]],
     end   |-> [fx |-> forces[4], fy |-> forces[5], moment |-> forces[6]]]

\* the memberForces map: one entry per member id, written in index order
MemberForceMap(S) ==
    [idStr \in IdStrs(S.elements) |->
        ForceEntry(getElementForces(S, LastWith(S.elements, idStr)))]

\* the result of the catch block
FailureResult ==
    [displacements |-> <<>>, reactions |-> <<>>, memberForces |-> <<>>,
     isStable |-> FALSE,
     message |-> "Structure is unstable or inputs are invalid."]

\* the result returned at the end of the try block
SuccessResult(S) ==
    [displacements |-> DisplacementMap(S), reactions |-> ReactionMap(S),
     memberForces |-> MemberForceMap(S),
     stiffnessMatrix |-> S.K, reducedStiffnessMatrix |-> S.K_reduced,
     isStable |-> TRUE, message |-> "Analysis Completed Successfully"]

\* analyzeStructure from model.supports.forEach on, S being the Structure
\* object after model.members.forEach: nothing more runs when that threw
RunFromSupports(S, mdl) ==
    IF S.threw THEN S
    ELSE find_reactions(find_displacements(assemble_load_vector(
             assemble_structure_stiffness_matrix(
                 AddLoads(AddSupports(S, mdl.supports, 1), mdl.loads, 1)))))

\* the Structure object analyzeStructure builds and analyses for a model
RunStructure(mdl) ==
    RunFromSupports(AddMembers(AddNodes(NewStructure, mdl.nodes, 1), mdl.members, 1), mdl)

\* mutant: a failure is returned with a zero displacement for every node
ResultOf_ZeroFilled(S) ==
    IF S.threw
    THEN [FailureResult EXCEPT !.displacements =
             [idStr \in IdStrs(S.nodes) |-> [x |-> Zero, y |-> Zero, rotation |-> Zero]]]
    ELSE SuccessResult(S)

\* analyzeStructure(model), given the Structure object of the run
ResultOf(S) == IF S.threw THEN FailureResult ELSE SuccessResult(S)

analyzeStructure(mdl) == ResultOf(RunStructure(mdl))

----------------------------------------------------------------------------
(* The application: the structure model under edit and the last analysis.  *)
(* A model change clears the results (handleModelChange); an analysis runs *)
(* analyzeStructure on the current model.  structure keeps the Structure   *)
(* object of that run for inspection.                                      *)

(* State: the model under edit, the analysis results held for it (Null    *)
(* when there are none) and, as a record of how the results came about,    *)
(* the Structure object the last analysis built.  calls is the log of the  *)
(* analyses run from the Analyze button: the model passed to               *)
(* analyzeStructure and the result it returned, in call order.  np is a    *)
(* call of NP.solve on its own: its arguments A and b and, once the call   *)
(* has returned, its value x (Null when no such call is under study).      *)
VARIABLES model, results, structure, calls, np

vars == <<model, results, structure, calls, np>>

\* analysisResults = null
Null == [isNull |-> TRUE]

EmptyModel == [nodes |-> <<>>, members |-> <<>>, supports |-> <<>>, loads |-> <<>>]

Init ==
    /\ model = EmptyModel
    /\ results = Null
    /\ structure = NewStructure
    /\ calls = <<>>
    /\ np = Null

\* handleModelChange: the results are cleared and the model replaced
handleModelChange(newModel) ==
    /\ model' = newModel
    /\ results' = Null
    /\ structure' = NewStructure
    /\ UNCHANGED <<calls, np>>

\* mutant: the defaults of the member properties are written onto the
\* members of the model that was passed in
Analyze_WritesDefaults ==
    /\ results = Null
    /\ structure' = RunStructure(model)
    /\ results' = ResultOf(structure')
    /\ model' = [model EXCEPT !.members =
                    [i \in 1..Len(model.members) |->
                        [model.members[i] EXCEPT
                            !.eModulus = OrElse(@, DefaultEModulus),
                            !.area = OrElse(@, DefaultArea),
                            !.momentInertia = OrElse(@, DefaultMomentInertia),
                            !.springConstant = OrElse(@, DefaultSpringConstant)]]]
    /\ UNCHANGED <<calls, np>>

\* results = analyzeStructure(model), taken when no results are held.  The
\* solver is called for whatever the model is: with no nodes, no members or
\* no supports too.
Analyze ==
    /\ results = Null
    /\ structure' = RunStructure(model)
    /\ results' = ResultOf(structure')
    /\ UNCHANGED <<model, calls, np>>

\* model items
Node(id, x, y) == [id |-> id, x |-> Whole(x), y |-> Whole(y)]

Member(id, type, startNodeId, endNodeId, eModulus, area, momentInertia, springConstant) ==
    [id |-> id, type |-> type, startNodeId |-> startNodeId, endNodeId |-> endNodeId,
     eModulus |-> eModulus, area |-> area, momentInertia |-> momentInertia,
     springConstant |-> springConstant]

Support(nodeId, type) == [nodeId |-> nodeId, type |-> type]

NodalLoad(nodeId, fx, fy, moment) ==
    [type |-> "nodal_point", nodeId |-> nodeId, memberId |-> "",
     magnitudeX |-> fx, magnitudeY |-> fy, moment |-> moment, location |-> Undefined]

MemberLoad(type, memberId, fy, location) ==
    [type |-> type, nodeId |-> "", memberId |-> memberId,
     magnitudeX |-> Zero, magnitudeY |-> fy, moment |-> Undefined,
     location |-> location]

\* An edit: handleModelChange receives the model with one more item in one
\* of its lists.  The item is any of a given set, so node ids may repeat
\* and members, supports and loads may name ids that no node or member has.
AddNode(items, max) ==
    /\ Len(model.nodes) < max
    /\ \E n \in items : handleModelChange([model EXCEPT !.nodes = Append(@, n)])

AddMemberItem(items, max) ==
    /\ Len(model.members) < max
    /\ \E m \in items : handleModelChange([model EXCEPT !.members = Append(@, m)])

AddSupport(items, max) ==
    /\ Len(model.supports) < max
    /\ \E sp \in items : handleModelChange([model EXCEPT !.supports = Append(@, sp)])

AddLoadItem(items, max) ==
    /\ Len(model.loads) < max
    /\ \E l \in items : handleModelChange([model EXCEPT !.loads = Append(@, l)])

\* bounds on the model under edit
MaxNodes == 2
MaxMembers == 1
MaxSupports == 2
MaxLoads == 1

----------------------------------------------------------------------------
(* Spec: small general models.  Two nodes a and b on a horizontal line,   *)
(* added in any order and any number of times, so that a member a-b may    *)
(* name a node id the model lacks and an id may be used twice; a beam and  *)
(* a spring; every support type; a nodal and a member load.                *)

GenNodes == {Node("a", 0, 0), Node("b", 4, 0)}

GenMembers ==
    {Member("m", t, "a", "b", Whole(1), Whole(10), Whole(1), Whole(2)) :
        t \in {"beam", "spring"}}

GenSupports ==
    {Support("a", "pin"), Support("a", "fixed"),
     Support("b", "roller"), Support("b", "fixed")}

GenLoads ==
    {NodalLoad("a", Whole(5), Whole(-3), Whole(2)),
     MemberLoad("member_distributed", "m", Whole(-6), Undefined)}

Next ==
    \/ AddNode(GenNodes, MaxNodes)
    \/ AddMemberItem(GenMembers, MaxMembers)
    \/ AddSupport(GenSupports, MaxSupports)
    \/ AddLoadItem(GenLoads, MaxLoads)
    \/ Analyze

Spec == Init /\ [][Next]_vars

----------------------------------------------------------------------------
(* SpecSupports: nodes a and b and supports of every type on a, on b and   *)
(* on an id c that no node has; no members, no loads.                      *)

SupNodes == {Node("a", 0, 0), Node("b", 4, 0)}

SupSupports ==
    {Support(id, t) : id \in {"a", "b"}, t \in {"pin", "roller", "fixed"}}
        \cup {Support("c", "pin")}

NextSupports ==
    \/ AddNode(SupNodes, MaxNodes)
    \/ AddSupport(SupSupports, MaxSupports)
    \/ Analyze

SpecSupports == Init /\ [][NextSupports]_vars

----------------------------------------------------------------------------
(* SpecMembers: nodes a and b; a beam, a truss and a spring a-b and a      *)
(* spring from b to an id c that no node has; a fixed a; a load on b.      *)

MemNodes == {Node("a", 0, 0), Node("b", 4, 0)}

MemMembers ==
    {Member("m1", "beam",   "a", "b", Whole(1), Whole(10), Whole(1), Undefined),
     Member("m2", "truss",  "b", "a", Whole(1), Whole(10), Undefined, Undefined),
     Member("m3", "spring", "a", "b", Undefined, Undefined, Undefined, Whole(2)),
     Member("m4", "spring", "b", "c", Undefined, Undefined, Undefined, Whole(2))}

MemSupports == {Support("a", "fixed")}

MemLoads == {NodalLoad("b", Whole(7), Whole(-9), Undefined)}

NextMembers ==
    \/ AddNode(MemNodes, MaxNodes)
    \/ AddMemberItem(MemMembers, MaxMembers)
    \/ AddSupport(MemSupports, MaxSupports)
    \/ AddLoadItem(MemLoads, MaxLoads)
    \/ Analyze

SpecMembers == Init /\ [][NextMembers]_vars

----------------------------------------------------------------------------
(* SpecStiffness: assembly of K.  Three nodes a, b, c off a common line;   *)
(* up to two members out of a frame a-b on the 3-4-5 diagonal, a spring    *)
(* b-c on a vertical, a spring a-b beside the frame, and a frame b-b whose *)
(* two ends are one node.  No supports, no loads.                          *)

StiffMaxNodes == 3
StiffMaxMembers == 2

StiffNodes == {Node("a", 0, 0), Node("b", 3, 4), Node("c", 3, 0)}

StiffMembers ==
    {Member("m1", "beam",   "a", "b", Whole(2), Whole(3), Whole(5), Undefined),
     Member("m2", "spring", "b", "c", Undefined, Undefined, Undefined, Whole(7)),
     Member("m3", "spring", "a", "b", Undefined, Undefined, Undefined, Whole(11)),
     Member("m4", "beam",   "b", "b", Whole(1), Whole(1), Sci(1, -4), Undefined)}

NextStiffness ==
    \/ AddNode(StiffNodes, StiffMaxNodes)
    \/ AddMemberItem(StiffMembers, StiffMaxMembers)
    \/ Analyze

SpecStiffness == Init /\ [][NextStiffness]_vars

----------------------------------------------------------------------------
(* SpecSpring: one spring between a at the origin and b, which lies on the *)
(* x axis, on the 3-4-5 diagonal or below a on the y axis; one end fixed;  *)
(* a nodal load on either end, along one of the three axes.                *)

SpringNodes ==
    {Node("a", 0, 0), Node("b", 4, 0), Node("b", 3, 4), Node("b", 0, -3)}

SpringMembers ==
    {Member("s", "spring", "a", "b", Undefined, Undefined, Undefined, Whole(100)),
     Member("s", "spring", "b", "a", Undefined, Undefined, Undefined, Whole(7))}

SpringSupports == {Support("a", "fixed"), Support("b", "fixed")}

SpringLoads ==
    {NodalLoad("b", Whole(50), Zero, Undefined),
     NodalLoad("b", Whole(-30), Whole(-40), Undefined),
     NodalLoad("b", Zero, Whole(-20), Undefined),
     NodalLoad("a", Whole(-21), Zero, Undefined)}

NextSpring ==
    \/ AddNode(SpringNodes, MaxNodes)
    \/ AddMemberItem(SpringMembers, MaxMembers)
    \/ AddSupport(SpringSupports, MaxSupports)
    \/ AddLoadItem(SpringLoads, MaxLoads)
    \/ Analyze

SpecSpring == Init /\ [][NextSpring]_vars

----------------------------------------------------------------------------
(* SpecBeam: one beam a-b with the default section on the x axis, b 4 to   *)
(* the right or 2 to the left of a; pins and rollers on either end; a      *)
(* member point load with no location or at 2 from the start.              *)

BeamNodes == {Node("a", 0, 0), Node("b", 4, 0), Node("b", -2, 0)}

BeamMembers ==
    {Member("m", "beam", "a", "b", Undefined, Undefined, Undefined, Undefined)}

BeamSupports ==
    {Support("a", "pin"), Support("b", "roller"),
     Support("a", "roller"), Support("b", "pin")}

BeamLoads ==
    {MemberLoad("member_point", "m", Whole(-10000), Undefined),
     MemberLoad("member_point", "m", Whole(6), Whole(2))}

NextBeam ==
    \/ AddNode(BeamNodes, MaxNodes)
    \/ AddMemberItem(BeamMembers, MaxMembers)
    \/ AddSupport(BeamSupports, MaxSupports)
    \/ AddLoadItem(BeamLoads, MaxLoads)
    \/ Analyze

SpecBeam == Init /\ [][NextBeam]_vars

----------------------------------------------------------------------------
(* SpecTruss: one truss member a-b that carries a moment of inertia, on    *)
(* the x axis or on the 3-4-5 diagonal; a fixed or pinned a, a roller at   *)
(* b; a nodal load across the member, one along the diagonal, and a        *)
(* distributed member load.                                                *)

TrussNodes == {Node("a", 0, 0), Node("b", 4, 0), Node("b", 3, 4)}

TrussMembers ==
    {Member("m", "truss", "a", "b", Whole(1), Whole(10), Whole(1), Undefined)}

TrussSupports ==
    {Support("a", "fixed"), Support("a", "pin"), Support("b", "roller")}

TrussLoads ==
    {NodalLoad("b", Whole(7), Whole(-9), Undefined),
     NodalLoad("b", Whole(6), Whole(8), Undefined),
     MemberLoad("member_distributed", "m", Whole(-6), Undefined)}

NextTruss ==
    \/ AddNode(TrussNodes, MaxNodes)
    \/ AddMemberItem(TrussMembers, MaxMembers)
    \/ AddSupport(TrussSupports, MaxSupports)
    \/ AddLoadItem(TrussLoads, MaxLoads)
    \/ Analyze

SpecTruss == Init /\ [][NextTruss]_vars

----------------------------------------------------------------------------
(* Vocabulary of the claims *)

\* equality of values, whatever n, d, e stand for them
IsZero(a) == a.n = 0
Eq(a, b) == IsZero(Sub(a, b))

Analysed == results # Null
Succeeded == Analysed /\ results.isStable

\* the solver reached NP.solve and met a pivot with |pivot| < 1e-12
MetSingularPivot ==
    /\ Analysed
    /\ structure.solve_calls > 0
    /\ TinyPivots(structure.K_reduced) # {}

ModelNodeIds == {model.nodes[i].id : i \in 1..Len(model.nodes)}

\* some member names a start or end node id that no node of the model has
HasDanglingMember ==
    \E i \in 1..Len(model.members) :
        \/ model.members[i].startNodeId \notin ModelNodeIds
        \/ model.members[i].endNodeId \notin ModelNodeIds

RECURSIVE SumSeq(_, _)
SumSeq(seq, i) == IF i > Len(seq) THEN Zero ELSE Add(seq[i], SumSeq(seq, i + 1))

\* f[k] for the keys k of a map, as a sequence in some order
RECURSIVE MapValues(_, _)
MapValues(f, keys) ==
    IF keys = {} THEN <<>>
    ELSE LET k == CHOOSE k \in keys : TRUE
         IN  <<f[k]>> \o MapValues(f, keys \ {k})

ReactionSum(comp) ==
    LET rs == MapValues(results.reactions, DOMAIN results.reactions)
    IN  SumSeq([i \in 1..Len(rs) |-> IF comp = "fx" THEN rs[i].fx ELSE rs[i].fy], 1)

\* the direct nodal loads applied to nodes of the model
NodalLoadSum(comp) ==
    SumSeq([i \in 1..Len(model.loads) |->
               IF model.loads[i].type # "nodal_point" THEN Zero
               ELSE IF model.loads[i].nodeId \notin ModelNodeIds THEN Zero
               ELSE IF comp = "fx" THEN model.loads[i].magnitudeX
               ELSE model.loads[i].magnitudeY], 1)

\* the support type the model leaves on node i (1-based): the last support
\* that names the node's id, when no later node took the id over; else "none"
AttachedSupport(i) ==
    LET id   == model.nodes[i].id
        hits == {k \in 1..Len(model.supports) : model.supports[k].nodeId = id}
    IN  IF \E j \in (i + 1)..Len(model.nodes) : model.nodes[j].id = id THEN "none"
        ELSE IF hits = {} THEN "none"
        ELSE model.supports[CHOOSE k \in hits : \A h \in hits : h <= k].type

\* the slots (0 = x, 1 = y, 2 = rotation) a support type fixes
FixedSlots(type) ==
    IF type = "pin" THEN {0, 1}
    ELSE IF type = "roller" THEN {1}
    ELSE IF type = "fixed" THEN {0, 1, 2}
    ELSE {}

SeqSet(seq) == {seq[i] : i \in 1..Len(seq)}

StrictlyAscending(seq) == \A i \in 1..(Len(seq) - 1) : seq[i] < seq[i + 1]

----------------------------------------------------------------------------
(* Claims *)

\* C1: whenever the reduced stiffness matrix is singular (elimination meets
\* a pivot below 1e-12 in magnitude) the analysis fails with isStable = false
\* instead of reporting the affected unknowns as zero.
C1_SingularFails == MetSingularPivot => ~results.isStable

\* C2: a model with at least one member and no supports is never reported
\* stable, whatever its loads.
C2_UnsupportedUnstable ==
    (Analysed /\ Len(model.members) >= 1 /\ Len(model.supports) = 0)
        => ~results.isStable

\* C3: in every result reported stable, the reactions plus the direct nodal
\* loads sum to zero in x and in y.
C3_Equilibrium ==
    Succeeded =>
        /\ IsZero(Add(ReactionSum("fx"), NodalLoadSum("fx")))
        /\ IsZero(Add(ReactionSum("fy"), NodalLoadSum("fy")))

\* C4: in every successful result the displacement at each fixed DOF is 0
\* (pin: x, y; roller: y; fixed: x, y, rotation); and when the free set is
\* empty the analysis succeeds with all displacements 0 and no call of the
\* linear solver.
C4_FixedDofsZero ==
    /\ Succeeded =>
         \A i \in 1..Len(model.nodes) : \A slot \in FixedSlots(AttachedSupport(i)) :
             /\ IsZero(structure.node_displacements[(i - 1) * 3 + slot + 1])
             /\ LET d == results.displacements[model.nodes[i].id]
                IN  IsZero(<<d.x, d.y, d.rotation>>[slot + 1])
    /\ (Analysed /\ ~HasDanglingMember
          /\ \A i \in 1..Len(model.nodes) : AttachedSupport(i) = "fixed") =>
         /\ results.isStable
         /\ structure.free_dof = <<>>
         /\ structure.solve_calls = 0
         /\ \A id \in DOMAIN results.displacements :
                LET d == results.displacements[id]
                IN  IsZero(d.x) /\ IsZero(d.y) /\ IsZero(d.rotation)

C4_Witness ==
    /\ Succeeded
    /\ Len(model.nodes) = 2
    /\ \A i \in 1..2 : AttachedSupport(i) = "fixed"
    /\ Len(model.loads) = 1

\* C5: the free and fixed DOF lists are disjoint, cover [0, 3N) exactly, are
\* strictly ascending, and DOF (n-1)*3+s is fixed iff the support attached
\* to node n fixes slot s (pin 0,1; roller 1; fixed 0,1,2; none nothing).
C5_DofPartition ==
    (Analysed /\ ~structure.threw) =>
        LET free == structure.free_dof
            fix  == structure.fix_dof
            N    == Len(model.nodes)
        IN  /\ SeqSet(free) \cap SeqSet(fix) = {}
            /\ SeqSet(free) \cup SeqSet(fix) = 0..(3 * N - 1)
            /\ Len(free) + Len(fix) = 3 * N
            /\ StrictlyAscending(free)
            /\ StrictlyAscending(fix)
            /\ \A n \in 1..N : \A slot \in 0..2 :
                   ((n - 1) * 3 + slot \in SeqSet(fix))
                       <=> (slot \in FixedSlots(AttachedSupport(n)))

C5_Witness ==
    /\ Analysed /\ ~structure.threw
    /\ Len(model.nodes) = 2
    /\ Len(model.supports) = 2
    /\ model.supports[1].nodeId = model.supports[2].nodeId
    /\ AttachedSupport(1) = "none"
    /\ AttachedSupport(2) = "roller"
    /\ structure.free_dof = <<0, 1, 2, 3, 5>>
    /\ structure.fix_dof = <<4>>

\* C6: for every model whose members name registered nodes, the assembled
\* global stiffness matrix is 3N x 3N and symmetric, K[i][j] = K[j][i].
C6_StiffnessSymmetric ==
    (Analysed /\ ~HasDanglingMember) =>
        LET K == structure.K
            R == 1..(3 * Len(model.nodes))
        IN  /\ DOMAIN K = R
            /\ \A i \in R : DOMAIN K[i] = R
            /\ \A i \in R : \A j \in R : Eq(K[i][j], K[j][i])

C6_Witness ==
    /\ Analysed /\ ~HasDanglingMember
    /\ Len(model.nodes) = 3
    /\ Len(model.members) = 2
    /\ {model.members[i].type : i \in 1..2} = {"beam", "spring"}
    /\ \E i \in 1..2 : model.members[i].startNodeId = model.members[i].endNodeId
    /\ \E i \in 1..9 : \E j \in 1..9 : i # j /\ ~IsZero(structure.K[i][j])

\* the model is one spring of stiffness k > 0 between its two nodes, one end
\* fixed, and one nodal load on the other end
SingleSpringCase ==
    /\ Len(model.nodes) = 2
    /\ model.nodes[1].id # model.nodes[2].id
    /\ Len(model.members) = 1
    /\ model.members[1].type = "spring"
    /\ model.members[1].springConstant.n > 0
    /\ {model.members[1].startNodeId, model.members[1].endNodeId} = ModelNodeIds
    /\ Len(model.supports) = 1
    /\ model.supports[1].type = "fixed"
    /\ model.supports[1].nodeId \in ModelNodeIds
    /\ Len(model.loads) = 1
    /\ model.loads[1].type = "nodal_point"
    /\ model.loads[1].nodeId \in ModelNodeIds \ {model.supports[1].nodeId}

\* the component of the vector (x, y) along the axis of element el
Along(el, x, y) == Add(Mul(x, el.cosine), Mul(y, el.sine))

\* the component of the vector (x, y) across the axis of element el
Across(el, x, y) == Sub(Mul(y, el.cosine), Mul(x, el.sine))

\* C7: a single spring k > 0, one end fixed, a nodal load P along the spring
\* axis on the other end: the analysis succeeds, the free end moves P/k
\* along the load and the reaction at the fixed end is -P along the load.
C7_SpringAxialResponse ==
    (Analysed /\ SingleSpringCase) =>
        LET el == structure.elements[1]
            ld == model.loads[1]
            P  == Along(el, ld.magnitudeX, ld.magnitudeY)
        IN  IsZero(Across(el, ld.magnitudeX, ld.magnitudeY)) =>
                /\ results.isStable
                /\ LET d == results.displacements[ld.nodeId]
                       r == results.reactions[model.supports[1].nodeId]
                   IN  /\ Eq(Along(el, d.x, d.y), Div(P, model.members[1].springConstant))
                       /\ Eq(Along(el, r.fx, r.fy), Neg(P))

C7_Witness ==
    /\ Analysed /\ SingleSpringCase
    /\ model.members[1].springConstant = Whole(100)
    /\ model.loads[1].magnitudeX = Whole(50)
    /\ IsZero(structure.elements[1].sine)
    /\ Eq(results.displacements["b"].x, Frac(1, 2))
    /\ Eq(results.reactions["a"].fx, Whole(-50))

\* the model is one beam along the x axis between its two nodes, a pin on one
\* end and a roller on the other, and one member point load at midspan
SimpleBeamCase ==
    /\ Len(model.nodes) = 2
    /\ model.nodes[1].id # model.nodes[2].id
    /\ Eq(model.nodes[1].y, model.nodes[2].y)
    /\ ~Eq(model.nodes[1].x, model.nodes[2].x)
    /\ Len(model.members) = 1
    /\ model.members[1].type = "beam"
    /\ {model.members[1].startNodeId, model.members[1].endNodeId} = ModelNodeIds
    /\ Len(model.supports) = 2
    /\ {model.supports[1].type, model.supports[2].type} = {"pin", "roller"}
    /\ {model.supports[1].nodeId, model.supports[2].nodeId} = ModelNodeIds
    /\ Len(model.loads) = 1
    /\ model.loads[1].type = "member_point"
    /\ model.loads[1].memberId = model.members[1].id
    /\ \/ model.loads[1].location = Undefined
       \/ Eq(Add(model.loads[1].location, model.loads[1].location),
             Abs(Sub(model.nodes[2].x, model.nodes[1].x)))

\* C8: a single horizontal beam, pin and roller, member point load P at
\* midspan: the vertical reaction at each support is -P/2 and the reaction
\* moment at each support is zero.
C8_MidspanReactions ==
    (Analysed /\ SimpleBeamCase) =>
        /\ results.isStable
        /\ \A id \in ModelNodeIds :
               /\ Eq(results.reactions[id].fy,
                     Neg(Div(model.loads[1].magnitudeY, Whole(2))))
               /\ IsZero(results.reactions[id].moment)

C8_Witness ==
    /\ Analysed /\ SimpleBeamCase
    /\ model.loads[1].magnitudeY = Whole(-10000)
    /\ Eq(structure.elements[1].length, Whole(4))
    /\ Eq(results.reactions["a"].fy, Whole(5000))
    /\ Eq(results.reactions["b"].fy, Whole(5000))

\* the same model with every truss member turned into a beam
BeamTwin(mdl) ==
    [mdl EXCEPT !.members =
        [i \in 1..Len(mdl.members) |->
            IF mdl.members[i].type = "truss"
            THEN [mdl.members[i] EXCEPT !.type = "beam"]
            ELSE mdl.members[i]]]

AllTruss ==
    /\ Len(model.members) >= 1
    /\ \A i \in 1..Len(model.members) : model.members[i].type = "truss"

\* a member load of the model names member id
CarriesMemberLoad(id) ==
    \E i \in 1..Len(model.loads) :
        /\ model.loads[i].type # "nodal_point"
        /\ model.loads[i].memberId = id

\* the reported axial end forces of every member are those of the beam twin
AxialAsBeamTwin ==
    LET twin == analyzeStructure(BeamTwin(model))
    IN  /\ twin.isStable
        /\ \A id \in DOMAIN results.memberForces :
               /\ Eq(results.memberForces[id].start.fx, twin.memberForces[id].start.fx)
               /\ Eq(results.memberForces[id].end.fx, twin.memberForces[id].end.fx)

TrussInertiaZero ==
    \A i \in 1..Len(structure.elements) : IsZero(structure.elements[i].I)

C10_DanglingMemberFails ==
    (Analysed /\ HasDanglingMember) =>
        /\ ~results.isStable
        /\ results.displacements = <<>>
        /\ results.reactions = <<>>
        /\ results.memberForces = <<>>

C10_Witness ==
    /\ Analysed /\ HasDanglingMember
    /\ Len(model.nodes) = 2
    /\ model.nodes[1].id # model.nodes[2].id
    /\ model.members[1].endNodeId = "c"
    /\ Len(model.supports) > 0
    /\ Len(model.loads) > 0

ModelMemberIds == {model.members[i].id : i \in 1..Len(model.members)}

\* a support or a nodal load names a node id no node has, or a member load
\* names a member id no member has
HasUnknownReference ==
    \/ \E i \in 1..Len(model.supports) : model.supports[i].nodeId \notin ModelNodeIds
    \/ \E i \in 1..Len(model.loads) :
           /\ model.loads[i].type = "nodal_point"
           /\ model.loads[i].nodeId \notin ModelNodeIds
    \/ \E i \in 1..Len(model.loads) :
           /\ model.loads[i].type # "nodal_point"
           /\ model.loads[i].memberId \notin ModelMemberIds

\* C11: if a support or a nodal load names a node id that no node has, or a
\* member load names a member id that no member has, the analysis returns a
\* failure result (isStable = false) instead of a numeric answer.
C11_UnknownIdFails == (Analysed /\ HasUnknownReference) => ~results.isStable

\* two nodes of the model share one id
HasDuplicateNodeId ==
    \E i \in 1..Len(model.nodes) : \E j \in 1..Len(model.nodes) :
        i # j /\ model.nodes[i].id = model.nodes[j].id

\* C12: a node whose id is already used is rejected: no Structure object
\* holds two internal nodes with one external id, and no successful result
\* is produced for a model in which two nodes share an id.
C12_DuplicateIdRejected ==
    /\ \A i \in 1..Len(structure.nodes) : \A j \in 1..Len(structure.nodes) :
           i # j => structure.nodes[i].idStr # structure.nodes[j].idStr
    /\ (Analysed /\ HasDuplicateNodeId) => ~results.isStable

\* the supports (by position) that name the id of node i, none when a later
\* node took the id over
SupportsOn(i) ==
    IF \E j \in (i + 1)..Len(model.nodes) : model.nodes[j].id = model.nodes[i].id
    THEN {}
    ELSE {k \in 1..Len(model.supports) : model.supports[k].nodeId = model.nodes[i].id}

\* the slots of node i (1-based) that the analysis held fixed
FixedSlotsOf(i) == {slot \in 0..2 : (i - 1) * 3 + slot \in SeqSet(structure.fix_dof)}

SetMax(S) == CHOOSE k \in S : \A h \in S : h <= k

\* C13: after any sequence of supports on one node, the node's restraint is
\* that of the last support of the sequence, not the union of them: a pin
\* followed by a roller leaves y fixed and x free.
C13_LastSupportWins ==
    (Analysed /\ ~structure.threw) =>
        \A i \in 1..Len(model.nodes) :
            SupportsOn(i) # {} =>
                /\ FixedSlotsOf(i) = FixedSlots(model.supports[SetMax(SupportsOn(i))].type)
                /\ structure.nodes[i].support =
                       [slot \in 1..3 |->
                           IF slot - 1 \in FixedSlots(model.supports[SetMax(SupportsOn(i))].type)
                           THEN 1 ELSE 0]

C13_Witness ==
    /\ Analysed /\ ~structure.threw
    /\ Len(model.nodes) = 1
    /\ model.supports = <<Support(model.nodes[1].id, "pin"),
                          Support(model.nodes[1].id, "roller")>>
    /\ FixedSlotsOf(1) = {1}
    /\ 0 \in SeqSet(structure.free_dof)

----------------------------------------------------------------------------
(* SpecLoads: nodes a and b, no members and no supports, and up to three   *)
(* nodal loads: three on a, one of them without a moment and one the       *)
(* opposite of another, and one on b.                                      *)

LoadMaxLoads == 3

LoadNodes == {Node("a", 0, 0), Node("b", 4, 0)}

LoadLoads ==
    {NodalLoad("a", Whole(5), Whole(-3), Whole(2)),
     NodalLoad("a", Whole(1), Whole(4), Undefined),
     NodalLoad("a", Whole(-5), Whole(3), Whole(-2)),
     NodalLoad("b", Whole(-2), Zero, Whole(7))}

NextLoads ==
    \/ AddNode(LoadNodes, MaxNodes)
    \/ AddLoadItem(LoadLoads, LoadMaxLoads)
    \/ Analyze

SpecLoads == Init /\ [][NextLoads]_vars

\* the nodal loads (by position) that name the id of node i, none when a
\* later node took the id over
NodalLoadsOn(i) ==
    IF \E j \in (i + 1)..Len(model.nodes) : model.nodes[j].id = model.nodes[i].id
    THEN {}
    ELSE {k \in 1..Len(model.loads) :
             /\ model.loads[k].type = "nodal_point"
             /\ model.loads[k].nodeId = model.nodes[i].id}

\* component c (1 = Fx, 2 = Fy, 3 = M) of a nodal load of the model, a
\* missing moment counted as 0
LoadComponent(l, c) ==
    IF c = 1 THEN l.magnitudeX
    ELSE IF c = 2 THEN l.magnitudeY
    ELSE IF l.moment = Undefined THEN Zero ELSE l.moment

\* the sum of component c over the nodal loads at the positions in set ks
RECURSIVE SumOver(_, _)
SumOver(ks, c) ==
    IF ks = {} THEN Zero
    ELSE LET k == CHOOSE k \in ks : TRUE
         IN  Add(LoadComponent(model.loads[k], c), SumOver(ks \ {k}, c))

\* the loads of the model in the order perm
Reordered(perm) == [k \in 1..Len(model.loads) |-> model.loads[perm[k]]]

\* the Structure object after model.nodes.forEach and model.loads.forEach
\* for the given loads
Loaded(loads) == AddLoads(AddNodes(NewStructure, model.nodes, 1), loads, 1)

\* C14: after any sequence of nodal loads, the load held by each node is the
\* component-wise sum (Fx, Fy, M) of the nodal loads that targeted it, a
\* missing moment counted as 0; the held loads do not depend on the order
\* of the loads, and loads on other nodes leave a node's load unchanged.
C14_NodalLoadsAccumulate ==
    (Analysed /\ ~structure.threw) =>
        /\ \A i \in 1..Len(model.nodes) : \A c \in 1..3 :
               /\ Eq(NodeLoad(structure.nodes[i])[c], SumOver(NodalLoadsOn(i), c))
               /\ Eq(structure.node_load[(i - 1) * 3 + c], SumOver(NodalLoadsOn(i), c))
        /\ \A perm \in Permutations(1..Len(model.loads)) :
               \A i \in 1..Len(model.nodes) : \A c \in 1..3 :
                   Eq(NodeLoad(Loaded(Reordered(perm)).nodes[i])[c],
                      NodeLoad(structure.nodes[i])[c])

C14_Witness ==
    /\ Analysed /\ ~structure.threw
    /\ Len(model.nodes) = 2
    /\ model.nodes[1].id = "a" /\ model.nodes[2].id = "b"
    /\ Len(model.loads) = 3
    /\ model.loads[1].nodeId = "a" /\ model.loads[1].moment # Undefined
    /\ model.loads[2].nodeId = "b"
    /\ model.loads[3].nodeId = "a" /\ model.loads[3].moment = Undefined
    /\ structure.nodes[1].load = <<Whole(6), Whole(1), Whole(2)>>
    /\ structure.nodes[2].load = <<Whole(-2), Zero, Whole(7)>>

----------------------------------------------------------------------------
(* SpecMemberLoads: one beam a-b of length 4 on the x axis, a fixed; up to *)
(* two member loads on it out of a distributed load, a point load at 1, a  *)
(* point load with no location and a point load at location 0.            *)

MemberMaxLoads == 2

MLNodes == {Node("a", 0, 0), Node("b", 4, 0)}

MLMembers == {Member("m", "beam", "a", "b", Whole(1), Whole(10), Whole(1), Undefined)}

MLSupports == {Support("a", "fixed")}

MLLoads ==
    {MemberLoad("member_distributed", "m", Whole(-6), Undefined),
     MemberLoad("member_point", "m", Whole(6), Whole(1)),
     MemberLoad("member_point", "m", Whole(-8), Undefined),
     MemberLoad("member_point", "m", Whole(5), Zero)}

NextMemberLoads ==
    \/ AddNode(MLNodes, MaxNodes)
    \/ AddMemberItem(MLMembers, MaxMembers)
    \/ AddSupport(MLSupports, MaxSupports)
    \/ AddLoadItem(MLLoads, MemberMaxLoads)
    \/ Analyze

SpecMemberLoads == Init /\ [][NextMemberLoads]_vars

IsMemberLoad(l) == l.type # "nodal_point" /\ l.memberId # ""

\* load k of the model is a member load and a later member load names the
\* same member
Superseded(k) ==
    /\ IsMemberLoad(model.loads[k])
    /\ \E h \in (k + 1)..Len(model.loads) :
           /\ IsMemberLoad(model.loads[h])
           /\ model.loads[h].memberId = model.loads[k].memberId

\* the model without the member loads that a later load on the same member
\* follows
LastLoadsOnly ==
    [model EXCEPT !.loads =
        SelectSeq([k \in 1..Len(model.loads) |-> [at |-> k, load |-> model.loads[k]]],
                  LAMBDA e : ~Superseded(e.at))]

Unwrapped(mdl) == [mdl EXCEPT !.loads = [k \in 1..Len(mdl.loads) |-> mdl.loads[k].load]]

\* C15: after any sequence of member loads on one member, the member's
\* equivalent nodal load vector is the one of the last member load alone:
\* element loads, load vectors, reactions and the whole result are those of
\* the model without the earlier member loads on that member.
C15_LastMemberLoadWins ==
    Analysed =>
        LET T == RunStructure(Unwrapped(LastLoadsOnly))
        IN  /\ structure.threw = T.threw
            /\ \A i \in 1..Len(structure.elements) :
                   structure.elements[i].eq_load = T.elements[i].eq_load
            /\ structure.eq_node_load = T.eq_node_load
            /\ structure.eff_node_load = T.eff_node_load
            /\ structure.reactions = T.reactions
            /\ results = ResultOf(T)

C15_Witness ==
    /\ Succeeded
    /\ Len(model.loads) = 2
    /\ model.loads[1].type = "member_distributed"
    /\ model.loads[2].type = "member_point"
    /\ model.loads[2].location = Whole(1)
    /\ Len(structure.elements) = 1
    /\ Len(structure.fix_dof) = 3
    /\ structure.elements[1].eq_load =
           PointEqLoad(Whole(6), Whole(1), Whole(4))
    /\ ~IsZero(results.reactions["a"].moment)

\* the positions of the member loads of the model that name member id
MemberLoadsOn(id) ==
    {k \in 1..Len(model.loads) :
        IsMemberLoad(model.loads[k]) /\ model.loads[k].memberId = id}

VecEq(u, v) == Len(u) = Len(v) /\ \A c \in 1..Len(u) : Eq(u[c], v[c])

\* C16: for a member point load P the equivalent nodal load is computed with
\* the supplied distance a from node i whenever a location is supplied,
\* location 0 included, and with a = L/2 only when none is supplied; a
\* supplied location of 0 gives shear P at node i, shear 0 at node j and
\* zero moments.
C16_PointLoadLocation ==
    (Analysed /\ ~structure.threw) =>
        \A i \in 1..Len(structure.elements) :
            LET el == structure.elements[i]
                ks == MemberLoadsOn(el.idStr)
                l  == model.loads[SetMax(ks)]
            IN  (/\ FindElement(structure, el.idStr, 1) = i
                 /\ ks # {}
                 /\ l.type = "member_point") =>
                    /\ l.location # Undefined =>
                           VecEq(el.eq_load,
                                 PointEqLoad(l.magnitudeY, l.location, el.length))
                    /\ l.location = Undefined =>
                           VecEq(el.eq_load,
                                 PointEqLoad(l.magnitudeY, Div(el.length, Whole(2)),
                                             el.length))
                    /\ (l.location # Undefined /\ IsZero(l.location)) =>
                           VecEq(el.eq_load,
                                 <<Zero, l.magnitudeY, Zero, Zero, Zero, Zero>>)

----------------------------------------------------------------------------
(* SpecUdl: one beam a-b of length 5, on the x axis or on the 3-4-5        *)
(* diagonal, both ends fixed, and a uniformly distributed load of -10 or   *)
(* of 6 on it.                                                             *)

UdlNodes == {Node("a", 0, 0), Node("b", 5, 0), Node("b", 3, 4)}

UdlMembers ==
    {Member("m", "beam", "a", "b", Whole(1), Whole(10), Whole(1), Undefined),
     Member("m", "beam", "b", "a", Whole(1), Whole(10), Whole(1), Undefined)}

UdlSupports == {Support("a", "fixed"), Support("b", "fixed")}

UdlLoads ==
    {MemberLoad("member_distributed", "m", Whole(-10), Undefined),
     MemberLoad("member_distributed", "m", Whole(6), Undefined)}

NextUdl ==
    \/ AddNode(UdlNodes, MaxNodes)
    \/ AddMemberItem(UdlMembers, MaxMembers)
    \/ AddSupport(UdlSupports, MaxSupports)
    \/ AddLoadItem(UdlLoads, MaxLoads)
    \/ Analyze

SpecUdl == Init /\ [][NextUdl]_vars

\* [0, wL/2, wL^2/12, 0, wL/2, -wL^2/12]
UdlVector(w, L) ==
    <<Zero, Div(Mul(w, L), Whole(2)), Div(Mul(w, Mul(L, L)), Whole(12)),
      Zero, Div(Mul(w, L), Whole(2)), Neg(Div(Mul(w, Mul(L, L)), Whole(12)))>>

\* the model is one beam between its two nodes, both fully fixed, and one
\* distributed load on the beam
FixedFixedUdlCase ==
    /\ Len(model.nodes) = 2
    /\ model.nodes[1].id # model.nodes[2].id
    /\ Len(model.members) = 1
    /\ model.members[1].type = "beam"
    /\ {model.members[1].startNodeId, model.members[1].endNodeId} = ModelNodeIds
    /\ \A i \in 1..2 : AttachedSupport(i) = "fixed"
    /\ Len(model.loads) = 1
    /\ model.loads[1].type = "member_distributed"
    /\ model.loads[1].memberId = model.members[1].id

\* C17: a member of length L under a uniformly distributed load w (the
\* element the load's member id finds, under the last load that names it)
\* stores the equivalent nodal load [0, wL/2, wL^2/12, 0, wL/2, -wL^2/12]; on a single
\* member with both ends fully fixed the displacements are zero and the
\* reported reactions are the negation of that vector (w = -10, L = 5:
\* shears -25, moments -125/6 and +125/6).
C17_UdlEquivalentLoad ==
    /\ (Analysed /\ ~structure.threw) =>
           \A i \in 1..Len(structure.elements) :
               LET el == structure.elements[i]
                   ks == MemberLoadsOn(el.idStr)
                   l  == model.loads[SetMax(ks)]
               IN  (/\ FindElement(structure, el.idStr, 1) = i
                    /\ ks # {}
                    /\ l.type = "member_distributed") =>
                       VecEq(el.eq_load, UdlVector(l.magnitudeY, el.length))
    /\ (Analysed /\ FixedFixedUdlCase) =>
           LET v  == UdlVector(model.loads[1].magnitudeY, structure.elements[1].length)
               ri == results.reactions[model.members[1].startNodeId]
               rj == results.reactions[model.members[1].endNodeId]
           IN  /\ results.isStable
               /\ \A id \in ModelNodeIds :
                      /\ IsZero(results.displacements[id].x)
                      /\ IsZero(results.displacements[id].y)
                      /\ IsZero(results.displacements[id].rotation)
               /\ VecEq(<<ri.fx, ri.fy, ri.moment, rj.fx, rj.fy, rj.moment>>,
                        [c \in 1..6 |-> Neg(v[c])])

C17_Witness ==
    /\ Analysed /\ FixedFixedUdlCase
    /\ model.loads[1].magnitudeY = Whole(-10)
    /\ Eq(structure.elements[1].length, Whole(5))
    /\ VecEq(structure.elements[1].eq_load,
             <<Zero, Whole(-25), Frac(-125, 6), Zero, Whole(-25), Frac(125, 6)>>)
    /\ Eq(results.reactions["a"].fy, Whole(25))
    /\ Eq(results.reactions["a"].moment, Frac(125, 6))
    /\ Eq(results.reactions["b"].moment, Frac(-125, 6))

\* C18: in every successful result for a model with distinct node ids, the
\* reactions map has an entry for a node id iff that node has at least one
\* fixed DOF; the components of a listed node that are not fixed are 0; and
\* when no DOF is fixed the map is empty.
C18_ReactionEntries ==
    (Succeeded /\ ~HasDuplicateNodeId) =>
        /\ DOMAIN results.reactions =
               {model.nodes[i].id : i \in {k \in 1..Len(model.nodes) :
                                              FixedSlots(AttachedSupport(k)) # {}}}
        /\ \A i \in 1..Len(model.nodes) :
               \A slot \in (0..2) \ FixedSlots(AttachedSupport(i)) :
                   model.nodes[i].id \in DOMAIN results.reactions =>
                       LET r == results.reactions[model.nodes[i].id]
                       IN  IsZero(<<r.fx, r.fy, r.moment>>[slot + 1])
        /\ structure.fix_dof = <<>> => DOMAIN results.reactions = {}

C18_Witness ==
    /\ Succeeded /\ ~HasDuplicateNodeId
    /\ Len(model.nodes) = 2
    /\ Len(model.members) = 1
    /\ model.supports = <<Support("a", "pin")>>
    /\ Len(model.loads) = 1
    /\ DOMAIN results.reactions = {"a"}
    /\ ~IsZero(results.reactions["a"].fy)
    /\ IsZero(results.reactions["a"].moment)

\* C19: every result with isStable = false has empty displacements,
\* reactions and memberForces maps and a non-empty message; every result
\* with isStable = true has a displacement entry for every node id and a
\* member-force entry for every member id of the model.
C19_ResultShape ==
    Analysed =>
        /\ ~results.isStable =>
               /\ DOMAIN results.displacements = {}
               /\ DOMAIN results.reactions = {}
               /\ DOMAIN results.memberForces = {}
               /\ results.message # ""
        /\ results.isStable =>
               /\ DOMAIN results.displacements = ModelNodeIds
               /\ DOMAIN results.memberForces = ModelMemberIds

C19_Witness ==
    /\ Analysed /\ ~results.isStable
    /\ Len(model.nodes) = 2
    /\ model.nodes[1].id # model.nodes[2].id
    /\ HasDanglingMember
    /\ Len(structure.nodes) = 2
    /\ results.message = "Structure is unstable or inputs are invalid."

----------------------------------------------------------------------------
(* SpecCalls: a session of the Analyze button.  The model is replaced by   *)
(* any of four whole models and analysed any number of times, the same     *)
(* model twice in a row or again after others: a cantilever beam under a   *)
(* nodal load, a spring between two supports, a beam with a pin only       *)
(* (singular) and a beam to a node id that no node has (the call fails).   *)

MaxCalls == 3

\* canAnalyze
canAnalyze == Len(model.members) > 0 /\ Len(model.supports) > 0

\* mutant: the call goes on with the Structure object of the call before
handleAnalyze_Reuse ==
    /\ canAnalyze
    /\ Len(calls) < MaxCalls
    /\ structure' = RunFromSupports(
                        AddMembers(AddNodes(structure, model.nodes, 1), model.members, 1),
                        model)
    /\ results' = ResultOf(structure')
    /\ calls' = Append(calls, [model |-> model, result |-> results'])
    /\ UNCHANGED <<model, np>>

\* handleAnalyze: results = analyzeStructure(model), whether or not results
\* are held
handleAnalyze ==
    /\ canAnalyze
    /\ Len(calls) < MaxCalls
    /\ structure' = RunStructure(model)
    /\ results' = ResultOf(structure')
    /\ calls' = Append(calls, [model |-> model, result |-> results'])
    /\ UNCHANGED <<model, np>>

\* handleApplyModel: setModel(payload) with a whole model
ApplyModel(models) == \E m \in models : handleModelChange(m)

CallModels ==
    {[nodes    |-> <<Node("a", 0, 0), Node("b", 4, 0)>>,
      members  |-> <<Member("m", "beam", "a", "b", Whole(1), Whole(10), Whole(1), Undefined)>>,
      supports |-> <<Support("a", "fixed")>>,
      loads    |-> <<NodalLoad("b", Whole(7), Whole(-9), Undefined)>>],
     [nodes    |-> <<Node("a", 0, 0), Node("b", 4, 0)>>,
      members  |-> <<Member("m", "spring", "a", "b", Undefined, Undefined, Undefined, Whole(2))>>,
      supports |-> <<Support("a", "pin"), Support("b", "roller")>>,
      loads    |-> <<NodalLoad("b", Whole(6), Zero, Undefined)>>],
     [nodes    |-> <<Node("a", 0, 0), Node("b", 4, 0)>>,
      members  |-> <<Member("m", "beam", "a", "b", Whole(1), Whole(10), Whole(1), Undefined)>>,
      supports |-> <<Support("a", "pin")>>,
      loads    |-> <<MemberLoad("member_distributed", "m", Whole(-6), Undefined)>>],
     [nodes    |-> <<Node("a", 0, 0)>>,
      members  |-> <<Member("m", "beam", "a", "b", Whole(1), Whole(10), Whole(1), Undefined)>>,
      supports |-> <<Support("a", "fixed")>>,
      loads    |-> <<>>]}

NextCalls ==
    \/ ApplyModel(CallModels)
    \/ handleAnalyze

SpecCalls == Init /\ [][NextCalls]_vars

----------------------------------------------------------------------------
(* SpecDegenerate: members of length zero.  Nodes a and b, both at the     *)
(* origin; a beam, a truss and a spring a-b and a beam a-a whose two ends  *)
(* are one node; a fixed a; a nodal load on b.                             *)

DegNodes == {Node("a", 0, 0), Node("b", 0, 0)}

DegMembers ==
    {Member("m", "beam",   "a", "b", Whole(1), Whole(10), Whole(1), Undefined),
     Member("m", "truss",  "a", "b", Whole(1), Whole(10), Undefined, Undefined),
     Member("m", "spring", "a", "b", Undefined, Undefined, Undefined, Whole(2)),
     Member("m", "beam",   "a", "a", Whole(1), Whole(10), Whole(1), Undefined)}

DegSupports == {Support("a", "fixed")}

DegLoads == {NodalLoad("b", Whole(7), Whole(-9), Whole(3))}

NextDegenerate ==
    \/ AddNode(DegNodes, MaxNodes)
    \/ AddMemberItem(DegMembers, MaxMembers)
    \/ AddSupport(DegSupports, MaxSupports)
    \/ AddLoadItem(DegLoads, MaxLoads)
    \/ Analyze

SpecDegenerate == Init /\ [][NextDegenerate]_vars

\* the two end nodes of an element have identical coordinates
ZeroLength(el) ==
    /\ Eq(structure.nodes[el.node_i].x, structure.nodes[el.node_j].x)
    /\ Eq(structure.nodes[el.node_i].y, structure.nodes[el.node_j].y)

\* every entry of a matrix is a finite number (no Infinity, no NaN)
AllFinite(M) == \A p \in 1..Len(M) : \A q \in 1..Len(M[p]) : M[p][q].d > 0

\* C21: a member whose two end nodes have identical coordinates (a member
\* from a node to itself included) is given a strictly positive substitute
\* length with cosine 1 and sine 0; no member has a length of zero to divide
\* by, so every stiffness entry is finite; and such a member does not by
\* itself make the analysis fail: a model whose members name nodes it has is
\* analysed with isStable = true.
C21_ZeroLengthMember ==
    Analysed =>
        /\ \A i \in 1..Len(structure.elements) :
               LET el == structure.elements[i]
               IN  /\ LessPos(Zero, el.length)
                   /\ ZeroLength(el) =>
                          /\ el.length = MinLength
                          /\ el.cosine = One
                          /\ el.sine = Zero
        /\ AllFinite(structure.K)
        /\ ~HasDanglingMember => results.isStable

C21_Witness ==
    /\ Succeeded
    /\ Len(model.nodes) = 2
    /\ model.nodes[1].id # model.nodes[2].id
    /\ Len(structure.elements) = 1
    /\ structure.elements[1].node_i # structure.elements[1].node_j
    /\ structure.elements[1].type = "frame"
    /\ ZeroLength(structure.elements[1])
    /\ structure.elements[1].length = MinLength
    /\ Len(model.supports) > 0
    /\ ~IsZero(results.displacements["b"].y)

\* the node (1-based index) DOF p (0-based) belongs to
NodeOfDof(p) == (p \div 3) + 1

\* some element has both nodes among its end nodes
ShareElement(n1, n2) ==
    \E i \in 1..Len(structure.elements) :
        {n1, n2} \subseteq {structure.elements[i].node_i, structure.elements[i].node_j}

\* the sum over the elements i and up of the entries of their 6x6 blocks
\* that land on K[p][q] (p, q 0-based)
RECURSIVE BlockSum(_, _, _, _)
BlockSum(blocks, p, q, i) ==
    IF i > Len(structure.elements) THEN Zero
    ELSE Add(SumSlots(blocks[i],
                      SlotsOf(ElementDofs(structure.elements[i]), p),
                      SlotsOf(ElementDofs(structure.elements[i]), q), 0),
             BlockSum(blocks, p, q, i + 1))

\* C22: nodes receive the dense 1-based indices 1..N in creation order, so
\* K is 3N x 3N and the load and displacement vectors have length 3N; the
\* scatter indices of an element are the six DOFs [3(i-1), 3(i-1)+1,
\* 3(i-1)+2, 3(j-1), 3(j-1)+1, 3(j-1)+2] of its end nodes i and j; K is the
\* accumulated sum of the element blocks at those indices, nothing being
\* overwritten, so K[p][q] is zero whenever DOFs p and q do not belong to
\* end nodes of a common element.
C22_DenseIndexAssembly ==
    (Analysed /\ ~structure.threw) =>
        LET N      == Len(model.nodes)
            R      == 1..(3 * N)
            K      == structure.K
            blocks == Fix([i \in 1..Len(structure.elements) |->
                          calculate_element_stiffness_matrix(structure.elements[i]).k_el])
        IN  /\ structure.nodeCount = N
            /\ DOMAIN structure.nodes = 1..N
            /\ \A i \in 1..N : /\ structure.nodes[i].id = i
                               /\ structure.nodes[i].idStr = model.nodes[i].id
            /\ DOMAIN K = R
            /\ \A p \in R : DOMAIN K[p] = R
            /\ DOMAIN structure.node_load = R
            /\ DOMAIN structure.eq_node_load = R
            /\ DOMAIN structure.eff_node_load = R
            /\ DOMAIN structure.node_displacements = R
            /\ \A i \in 1..Len(structure.elements) :
                   LET el == structure.elements[i]
                   IN  /\ el.node_i \in 1..N /\ el.node_j \in 1..N
                       /\ ElementDofs(el) =
                              <<3 * (el.node_i - 1), 3 * (el.node_i - 1) + 1,
                                3 * (el.node_i - 1) + 2, 3 * (el.node_j - 1),
                                3 * (el.node_j - 1) + 1, 3 * (el.node_j - 1) + 2>>
            /\ \A p \in R : \A q \in R :
                   /\ Eq(K[p][q], BlockSum(blocks, p - 1, q - 1, 1))
                   /\ ~ShareElement(NodeOfDof(p - 1), NodeOfDof(q - 1)) => IsZero(K[p][q])

C22_Witness ==
    /\ Analysed /\ ~structure.threw
    /\ Len(model.nodes) = 3
    /\ Len(structure.elements) = 2
    /\ structure.elements[1].type = "frame"
    /\ structure.elements[2].type = "spring"
    /\ ShareElement(1, 2) /\ ShareElement(1, 3) /\ ~ShareElement(2, 3)
    /\ Len(structure.K) = 9
    /\ LET b1 == calculate_element_stiffness_matrix(structure.elements[1]).k_el
           b2 == calculate_element_stiffness_matrix(structure.elements[2]).k_el
       IN  \E p \in 1..3 : \E q \in 1..3 :
               /\ ~IsZero(BlockSum(<<b1, Zeros(6, 6)>>, p - 1, q - 1, 1))
               /\ ~IsZero(BlockSum(<<Zeros(6, 6), b2>>, p - 1, q - 1, 1))
               /\ ~IsZero(structure.K[p][q])

----------------------------------------------------------------------------
(* SpecSolve: NP.solve on its own.  The call is made on a square matrix A  *)
(* of dimension 1 to SolveMaxDim and a right-hand side b of that length.   *)
(* Entry (i, j) of A is 0 or the fixed value SolveEntry(i, j): the values  *)
(* run from 1 to 5 in magnitude, of either sign, so that A may have zeros  *)
(* on its diagonal and diagonal entries that are not the largest of their  *)
(* column, and may be singular.                                            *)

SolveMaxDim == 3

SolveEntry(i, j) ==
    Whole((IF (i + j) % 3 = 0 THEN -1 ELSE 1) * (((i * i + 3 * j) % 5) + 1))

SolveMatrices(n) ==
    {Fix([i \in 1..n |-> Fix([j \in 1..n |-> IF mask[i][j] THEN SolveEntry(i, j) ELSE Zero])]) :
        mask \in [1..n -> [1..n -> BOOLEAN]]}

SolveRhs(n) == {Fix([i \in 1..n |-> Whole(2 * i - 3)])}

InitSolve ==
    /\ model = EmptyModel
    /\ results = Null
    /\ structure = NewStructure
    /\ calls = <<>>
    /\ \E n \in 1..SolveMaxDim : \E A \in SolveMatrices(n) : \E b \in SolveRhs(n) :
           np = [A |-> A, b |-> b, x |-> <<>>, returned |-> FALSE]

\* x = NP.solve(A, b)
Solve ==
    /\ np # Null
    /\ ~np.returned
    /\ np' = [np EXCEPT !.x = solve(np.A, np.b), !.returned = TRUE]
    /\ UNCHANGED <<model, results, structure, calls>>

NextSolve == Solve

SpecSolve == InitSolve /\ [][NextSolve]_vars

SolveReturned == np # Null /\ np.returned

\* C23: for every square matrix A in which elimination with partial
\* pivoting meets no pivot below 1e-12 in magnitude, and every right-hand
\* side b of the same length, solve(A, b) is the vector x with A.x = b, also
\* when rows are swapped because a diagonal entry is zero or is not the
\* largest of its column.
C23_SolveSolves ==
    (SolveReturned /\ TinyPivots(np.A) = {}) =>
        /\ Len(np.x) = Len(np.b)
        /\ VecEq(MatVec(np.A, np.x), np.b)

C23_Witness ==
    /\ SolveReturned
    /\ Len(np.A) = 3
    /\ TinyPivots(np.A) = {}
    /\ IsZero(np.A[1][1]) /\ IsZero(np.A[2][2])
    /\ PivotRow(np.A, 1, 2, 1) = 3
    /\ \A i \in 1..3 : ~IsZero(np.x[i])
    /\ VecEq(MatVec(np.A, np.x), np.b)

----------------------------------------------------------------------------
\* the displacement of end node n of an element along the member axis
AxialDisplacement(el, n) ==
    Along(el, structure.node_displacements[3 * (n - 1) + 1],
              structure.node_displacements[3 * (n - 1) + 2])

\* u_j - u_i in local coordinates: positive for a lengthened member
Elongation(el) == Sub(AxialDisplacement(el, el.node_j), AxialDisplacement(el, el.node_i))

\* C24: reported member end-forces follow the convention positive axial =
\* tension: for a member with no member load whose end j moves away from end
\* i along the member axis (local u_j > u_i) the axial components reported
\* at the start (start.fx) and at the end (end.fx) are positive, and for a
\* shortened member they are negative.
C24_PositiveAxialIsTension ==
    Succeeded =>
        \A i \in 1..Len(structure.elements) :
            LET el == structure.elements[i]
                f  == results.memberForces[el.idStr]
            IN  (el.eq_load = <<>> /\ LastWith(structure.elements, el.idStr) = i) =>
                    /\ Elongation(el).n > 0 => (f.start.fx.n > 0 /\ f.end.fx.n > 0)
                    /\ Elongation(el).n < 0 => (f.start.fx.n < 0 /\ f.end.fx.n < 0)

----------------------------------------------------------------------------
\* the slots (1-based) of the 6x6 layout that a spring's 4x4 block lands in:
\* [0, 1, 3, 4] of the code
SpringSlots == <<1, 2, 4, 5>>

\* the 6x6 block of a spring has zero rows and columns 2 and 5 and holds the
\* 4x4 global block at slots [0, 1, 3, 4]
SpringBlockShape(el) ==
    LET blk == calculate_element_stiffness_matrix(el).k_el
        k4  == spring_stiffness_matrix(el.k, el.sine, el.cosine).k_global
    IN  /\ Len(blk) = 6
        /\ \A r \in 1..6 : Len(blk[r]) = 6
        /\ \A r \in 1..6 : \A c \in {3, 6} : IsZero(blk[r][c]) /\ IsZero(blk[c][r])
        /\ \A r \in 1..4 : \A c \in 1..4 :
               blk[SpringSlots[r]][SpringSlots[c]] = k4[r][c]

\* C25: a spring member contributes no stiffness to any rotational DOF: in
\* its expanded 6x6 block every entry of rows and columns 2 and 5 is zero,
\* its 4x4 block lands in slots [0, 1, 3, 4], and the reported end moments of
\* a spring member are always zero.
C25_SpringNoRotation ==
    Succeeded =>
        \A i \in 1..Len(structure.elements) :
            LET el == structure.elements[i]
            IN  (el.type = "spring" /\ LastWith(structure.elements, el.idStr) = i) =>
                    /\ SpringBlockShape(el)
                    /\ IsZero(results.memberForces[el.idStr].start.moment)
                    /\ IsZero(results.memberForces[el.idStr].end.moment)

----------------------------------------------------------------------------
----------------------------------------------------------------------------
(* SpecFixedLoads: nodal loads on supported nodes.  A beam a-b on the      *)
(* 3-4-5 diagonal, a fixed a and a roller at b, and nodal loads with all   *)
(* three components on a and on b.                                         *)

FixNodes == {Node("a", 0, 0), Node("b", 3, 4)}

FixMembers == {Member("m", "beam", "a", "b", Whole(1), Whole(10), Whole(1), Undefined)}

FixSupports == {Support("a", "fixed"), Support("b", "roller")}

FixLoads ==
    {NodalLoad("a", Whole(5), Whole(-3), Whole(2)),
     NodalLoad("b", Whole(7), Whole(-9), Undefined)}

NextFixedLoads ==
    \/ AddNode(FixNodes, MaxNodes)
    \/ AddMemberItem(FixMembers, MaxMembers)
    \/ AddSupport(FixSupports, MaxSupports)
    \/ AddLoadItem(FixLoads, MaxLoads)
    \/ Analyze

SpecFixedLoads == Init /\ [][NextFixedLoads]_vars

\* the model with component c (0 = magnitudeX, 1 = magnitudeY, 2 = moment)
\* of its load k set to v
WithComponent(k, c, v) ==
    [model EXCEPT !.loads[k] =
        IF c = 0 THEN [@ EXCEPT !.magnitudeX = v]
        ELSE IF c = 1 THEN [@ EXCEPT !.magnitudeY = v]
        ELSE [@ EXCEPT !.moment = v]]

\* the values a load component is changed to
OtherValues == {Zero, Whole(11)}

\* two results report the same displacements, reactions and member forces
SameOutputs(r1, r2) ==
    /\ r1.isStable = r2.isStable
    /\ r1.displacements = r2.displacements
    /\ r1.reactions = r2.reactions
    /\ r1.memberForces = r2.memberForces

\* the pairs <<k, c>> of a nodal load k of the model and a component c of it
\* that acts on a restrained DOF
LoadsOnFixedDofs ==
    {kc \in (1..Len(model.loads)) \X {0, 1, 2} :
        /\ model.loads[kc[1]].type = "nodal_point"
        /\ get_id(structure, model.loads[kc[1]].nodeId) # NoId
        /\ kc[2] \in FixedSlotsOf(get_id(structure, model.loads[kc[1]].nodeId))}

\* C27: a direct nodal load component applied at a restrained DOF has no
\* effect on any output: two models that differ only in the value of such a
\* component yield identical displacements, reactions and member forces.
C27_LoadAtFixedDofIgnored ==
    (Analysed /\ ~structure.threw) =>
        \A kc \in LoadsOnFixedDofs : \A v \in OtherValues :
            SameOutputs(results, analyzeStructure(WithComponent(kc[1], kc[2], v)))

C27_Witness ==
    /\ Succeeded
    /\ Len(model.nodes) = 2
    /\ model.nodes[1].id # model.nodes[2].id
    /\ Len(model.members) = 1
    /\ model.supports = <<Support("a", "fixed"), Support("b", "roller")>>
    /\ model.loads = <<NodalLoad("b", Whole(7), Whole(-9), Undefined)>>
    /\ LoadsOnFixedDofs = {<<1, 1>>}
    /\ ~IsZero(results.displacements["b"].x)
    /\ SameOutputs(results, analyzeStructure(WithComponent(1, 1, Whole(11))))
    /\ ~SameOutputs(results, analyzeStructure(WithComponent(1, 0, Whole(11))))

----------------------------------------------------------------------------
\* the local end-forces of an element rotated back to global axes
GlobalEndForces(el) ==
    MatVec(Transpose(transformation_matrix(el.sine, el.cosine)),
           ElementForces(structure, el))

\* the sum over the elements i and up of their global end-forces at DOF p
\* (0-based)
RECURSIVE JointForce(_, _)
JointForce(p, i) ==
    IF i > Len(structure.elements) THEN Zero
    ELSE Add(SumSlots(<<GlobalEndForces(structure.elements[i])>>, <<1>>,
                      SlotsOf(ElementDofs(structure.elements[i]), p), 0),
             JointForce(p, i + 1))

\* C28: member forces are consistent with the applied loading at every
\* joint: in every successful result, at each free DOF the sum over the
\* members meeting at the node of their reported local end-forces rotated
\* back to global axes equals the direct nodal load applied at that DOF,
\* for members of any orientation, members that carry a member load and are
\* not aligned with the global x axis included.
C28_JointEquilibrium ==
    Succeeded =>
        \A k \in 1..Len(structure.free_dof) :
            Eq(JointForce(structure.free_dof[k], 1),
               structure.node_load[structure.free_dof[k] + 1])

----------------------------------------------------------------------------
\* a step that runs analyzeStructure: results appear where there were none
\* or one more call is logged
AnalysisStep == (results = Null /\ results' # Null) \/ calls' # calls

----------------------------------------------------------------------------
(* SpecAxialLoads: member loads with an axial part.  A beam a-b on the     *)
(* 3-4-5 diagonal, a fixed a, and a distributed and a point load on the    *)
(* member whose magnitudeX and moment are then set to other values.        *)

AxNodes == {Node("a", 0, 0), Node("b", 3, 4)}

AxMembers == {Member("m", "beam", "a", "b", Whole(1), Whole(10), Whole(1), Undefined)}

AxSupports == {Support("a", "fixed")}

AxLoads ==
    {MemberLoad("member_distributed", "m", Whole(-6), Undefined),
     [MemberLoad("member_point", "m", Whole(6), Whole(1)) EXCEPT
          !.magnitudeX = Whole(4), !.moment = Whole(-2)]}

NextAxialLoads ==
    \/ AddNode(AxNodes, MaxNodes)
    \/ AddMemberItem(AxMembers, MaxMembers)
    \/ AddSupport(AxSupports, MaxSupports)
    \/ AddLoadItem(AxLoads, MaxLoads)
    \/ Analyze

SpecAxialLoads == Init /\ [][NextAxialLoads]_vars

\* the pairs <<k, c>> of a member load k of the model and its component
\* c = 0 (magnitudeX) or c = 2 (moment)
AxialParts ==
    {kc \in (1..Len(model.loads)) \X {0, 2} :
        model.loads[kc[1]].type \in {"member_point", "member_distributed"}}

====
